---------------------------- MODULE Spec2Model ----------------------------
(***************************************************************************)
(* Model of the venue interaction store (stores/venueInteractionStore.ts,  *)
(* carried in src/route.ts from line 71 on), of its debounced propagation  *)
(* to the user profile store (src/unnamed/part_001), and of the            *)
(* createProfile mutation (src/route.ts lines 5-68).                       *)
(*                                                                         *)
(* Time is the local wall clock in whole minutes since local midnight of   *)
(* day 0.  An ISO timestamp string written by toISOString() and read back  *)
(* by new Date(s) denotes the same instant, so a stored timestamp is the   *)
(* minute it was written at; a falsy timestamp ('' as the lastInteraction  *)
(* of a record created by a like, or the undefined of interaction          *)
(* ?.lastInteraction when there is no record) is NoTime, and a string that *)
(* does not parse is InvalidDate.                                          *)
(* Local days are taken to have 24 hours (no daylight-saving shift), and a  *)
(* call, which reads the clock several times, to run within one minute.    *)
(***************************************************************************)
EXTENDS Integers, Sequences, FiniteSets, TLC

VARIABLES interactions, now, last, likedAt, pc, tagged, visitedAt, remote,
          ms, timers, calls, delivered, startProfile, profile, stats,
          profiles, reply, network, inflight, isLoading, awaiting, awarded,
          nightsCounted

\* the variables that only the scenario of their own section changes
history == <<visitedAt>>
sync == <<remote>>
timing == <<ms, timers, calls, delivered, startProfile>>
consumers == <<profile, stats>>
backend == <<profiles, reply, network, inflight>>
session == <<isLoading, awaiting, awarded, nightsCounted>>
beyond == <<history, sync, timing, consumers, backend, session>>

vars == <<interactions, now, last, likedAt, pc, tagged, beyond>>

-----------------------------------------------------------------------------
(* Program constants *)

RESET_HOUR == 5
LIKE_RESET_HOUR == 4
LIKE_RESET_MINUTE == 59
INTERACTION_COOLDOWN_HOURS == 2
DAILY_LIKE_LIMIT == 1
\* the length that getMostPopularVenues cuts its result to
TopVenues == 10

MinutesPerHour == 60
HoursPerDay == 24
MinutesPerDay == HoursPerDay * MinutesPerHour

(* Bounds of the model *)

MaxDay == 1

(* Minutes of the day at which the main specification lets calls happen *)
DayPoints == {240, 299, 300, 360}

TimePoints == {d * MinutesPerDay + m : d \in 0..MaxDay, m \in DayPoints}

(* Instants at which the two-venue specification lets calls happen *)
PairPoints == {240, 300, 420}

(* JavaScript values that are not numbers *)
UNDEFINED == "undefined"
NULL == "null"
NoTime == -1
InvalidDate == -2

Venues == {"bar1", "bar2"}
\* arrivalTime arguments of incrementInteraction, timeSlot arguments of likeVenue
ArrivalArgs == {"20:00", UNDEFINED}
LikeSlotArgs == {"21:00", ""}
\* the time slot strings used as arguments, as String.prototype.sort orders them
SlotOrder == <<"20:00", "21:00", "22:00">>
\* arrivalTime arguments of the slot scenario
SlotArgs == {"21:00", "22:00"}

-----------------------------------------------------------------------------
(* Date arithmetic *)

IsValidDate(t) == t >= 0

\* a < b and a >= b on Date objects: false when either is an Invalid Date
DateLT(a, b) == IsValidDate(a) /\ IsValidDate(b) /\ a < b
DateGE(a, b) == IsValidDate(a) /\ IsValidDate(b) /\ a >= b

\* d = new Date(t); d.setHours(h, m, 0, 0)
SetHours(t, h, m) ==
  IF IsValidDate(t) THEN t - (t % MinutesPerDay) + h * MinutesPerHour + m
  ELSE InvalidDate

\* d.setDate(d.getDate() - 1)
PreviousDay(t) == IF IsValidDate(t) THEN t - MinutesPerDay ELSE InvalidDate

\* d.setHours(d.getHours() + h)
AddHours(t, h) == IF IsValidDate(t) THEN t + h * MinutesPerHour ELSE InvalidDate

\* shouldReset without the comparison of lastReset against the boundary
shouldReset_NowOnly(lastReset) ==
  LET resetTime == SetHours(now, RESET_HOUR, 0)
  IN  DateGE(now, resetTime)

\* shouldReset counting a lastReset at the boundary itself as before it
shouldReset_Inclusive(lastReset) ==
  LET resetTime == SetHours(now, RESET_HOUR, 0)
  IN  DateGE(now, resetTime) /\ DateGE(resetTime, lastReset)


shouldReset(lastReset) ==
  LET resetTime == SetHours(now, RESET_HOUR, 0)
  IN  DateGE(now, resetTime) /\ DateLT(lastReset, resetTime)

\* shouldResetLikes without the comparison against yesterday's boundary
shouldResetLikes_TodayOnly(lastLikeReset) ==
  LET resetTime == SetHours(now, LIKE_RESET_HOUR, LIKE_RESET_MINUTE)
  IN  DateGE(now, resetTime) /\ DateLT(lastLikeReset, resetTime)

shouldResetLikes(lastLikeReset) ==
  LET resetTime == SetHours(now, LIKE_RESET_HOUR, LIKE_RESET_MINUTE)
  IN  IF DateGE(now, resetTime) /\ DateLT(lastLikeReset, resetTime) THEN TRUE
      ELSE IF DateLT(now, resetTime)
           THEN DateLT(lastLikeReset, PreviousDay(resetTime))
           ELSE FALSE

\* canInteractWithVenue with now > cooldownTime
canInteractWithVenue_Strict(lastInteraction) ==
  IF lastInteraction = NoTime THEN TRUE
  ELSE DateLT(AddHours(lastInteraction, INTERACTION_COOLDOWN_HOURS), now)

canInteractWithVenue(lastInteraction) ==
  IF lastInteraction = NoTime THEN TRUE
  ELSE DateGE(now, AddHours(lastInteraction, INTERACTION_COOLDOWN_HOURS))

-----------------------------------------------------------------------------
(* The ledger: state.interactions, a list of VenueInteraction records *)

\* state.interactions.find(i => i && i.venueId === venueId): index, 0 if none
Find(ints, venueId) ==
  IF \E k \in 1..Len(ints) : ints[k].venueId = venueId
  THEN CHOOSE k \in 1..Len(ints) :
         /\ ints[k].venueId = venueId
         /\ \A j \in 1..(k - 1) : ints[j].venueId # venueId
  ELSE 0

\* lastLikeReset || lastReset
LikeResetOf(i) == IF i.lastLikeReset = NoTime THEN i.lastReset ELSE i.lastLikeReset

\* ResetRecord with lastLikeReset falling back to lastReset alone
ResetRecord_Fallback(i) ==
  LET shouldResetInteraction == shouldReset(i.lastReset)
      shouldResetLikesForVenue == shouldResetLikes(LikeResetOf(i))
  IN  [i EXCEPT
        !.count = IF shouldResetInteraction THEN 0 ELSE i.count,
        !.lastReset = IF shouldResetInteraction THEN now ELSE i.lastReset,
        !.arrivalTime = IF shouldResetInteraction THEN UNDEFINED ELSE i.arrivalTime,
        !.lastLikeReset = IF shouldResetLikesForVenue THEN now ELSE i.lastReset,
        !.dailyLikesUsed = IF shouldResetLikesForVenue THEN 0 ELSE i.dailyLikesUsed,
        !.likeTimeSlot = IF shouldResetLikesForVenue THEN UNDEFINED ELSE i.likeTimeSlot]

\* ResetRecord that also zeroes the like total when the like window has elapsed
ResetRecord_ForgetsLikes(i) ==
  LET shouldResetInteraction == shouldReset(i.lastReset)
      shouldResetLikesForVenue == shouldResetLikes(LikeResetOf(i))
  IN  [i EXCEPT
        !.count = IF shouldResetInteraction THEN 0 ELSE i.count,
        !.likes = IF shouldResetLikesForVenue THEN 0 ELSE i.likes,
        !.lastReset = IF shouldResetInteraction THEN now ELSE i.lastReset,
        !.arrivalTime = IF shouldResetInteraction THEN UNDEFINED ELSE i.arrivalTime,
        !.lastLikeReset = IF shouldResetLikesForVenue THEN now ELSE LikeResetOf(i),
        !.dailyLikesUsed = IF shouldResetLikesForVenue THEN 0 ELSE i.dailyLikesUsed,
        !.likeTimeSlot = IF shouldResetLikesForVenue THEN UNDEFINED ELSE i.likeTimeSlot]


\* ResetRecord that zeroes the visit count and leaves arrivalTime in place
ResetRecord_KeepsArrival(i) ==
  LET shouldResetInteraction == shouldReset(i.lastReset)
      shouldResetLikesForVenue == shouldResetLikes(LikeResetOf(i))
  IN  [i EXCEPT
        !.count = IF shouldResetInteraction THEN 0 ELSE i.count,
        !.lastReset = IF shouldResetInteraction THEN now ELSE i.lastReset,
        !.lastLikeReset = IF shouldResetLikesForVenue THEN now ELSE LikeResetOf(i),
        !.dailyLikesUsed = IF shouldResetLikesForVenue THEN 0 ELSE i.dailyLikesUsed,
        !.likeTimeSlot = IF shouldResetLikesForVenue THEN UNDEFINED ELSE i.likeTimeSlot]


\* ResetRecord that zeroes dailyLikesUsed and leaves likeTimeSlot as it was
ResetRecord_KeepsLikeSlot(i) ==
  LET shouldResetInteraction == shouldReset(i.lastReset)
      shouldResetLikesForVenue == shouldResetLikes(LikeResetOf(i))
  IN  [i EXCEPT
        !.count = IF shouldResetInteraction THEN 0 ELSE i.count,
        !.lastReset = IF shouldResetInteraction THEN now ELSE i.lastReset,
        !.arrivalTime = IF shouldResetInteraction THEN UNDEFINED ELSE i.arrivalTime,
        !.lastLikeReset = IF shouldResetLikesForVenue THEN now ELSE LikeResetOf(i),
        !.dailyLikesUsed = IF shouldResetLikesForVenue THEN 0 ELSE i.dailyLikesUsed]


\* the object built for one record by the map of resetInteractionsIfNeeded
ResetRecord(i) ==
  LET shouldResetInteraction == shouldReset(i.lastReset)
      shouldResetLikesForVenue == shouldResetLikes(LikeResetOf(i))
  IN  [i EXCEPT
        !.count = IF shouldResetInteraction THEN 0 ELSE i.count,
        !.lastReset = IF shouldResetInteraction THEN now ELSE i.lastReset,
        !.arrivalTime = IF shouldResetInteraction THEN UNDEFINED ELSE i.arrivalTime,
        !.lastLikeReset = IF shouldResetLikesForVenue THEN now ELSE LikeResetOf(i),
        !.dailyLikesUsed = IF shouldResetLikesForVenue THEN 0 ELSE i.dailyLikesUsed,
        !.likeTimeSlot = IF shouldResetLikesForVenue THEN UNDEFINED ELSE i.likeTimeSlot]

\* the state update of resetInteractionsIfNeeded
ResetPass(ints) ==
  LET needsReset == \E k \in 1..Len(ints) : shouldReset(ints[k].lastReset)
      needsLikeReset == \E k \in 1..Len(ints) : shouldResetLikes(LikeResetOf(ints[k]))
  IN  IF needsReset \/ needsLikeReset
      THEN [k \in 1..Len(ints) |-> ResetRecord(ints[k])]
      ELSE ints

\* value returned by canInteract once its reset pass has produced ints
CanInteractOn(ints, venueId) ==
  LET k == Find(ints, venueId)
  IN  canInteractWithVenue(IF k = 0 THEN NoTime ELSE ints[k].lastInteraction)

\* CanLikeOn with dailyLikesUsed <= DAILY_LIKE_LIMIT
CanLikeOn_AtMost(ints, venueId) ==
  LET k == Find(ints, venueId)
  IN  IF k = 0 THEN TRUE
      ELSE LET shouldResetLikesForVenue == shouldResetLikes(LikeResetOf(ints[k]))
               dailyLikesUsed == IF shouldResetLikesForVenue THEN 0
                                 ELSE ints[k].dailyLikesUsed
           IN  dailyLikesUsed <= DAILY_LIKE_LIMIT

\* value returned by canLikeVenue once its reset pass has produced ints
CanLikeOn(ints, venueId) ==
  LET k == Find(ints, venueId)
  IN  IF k = 0 THEN TRUE
      ELSE LET shouldResetLikesForVenue == shouldResetLikes(LikeResetOf(ints[k]))
               dailyLikesUsed == IF shouldResetLikesForVenue THEN 0
                                 ELSE ints[k].dailyLikesUsed
           IN  dailyLikesUsed < DAILY_LIKE_LIMIT

\* VisitUpdate overwriting arrivalTime with the argument even when it is absent
VisitUpdate_Overwrite(ints, venueId, arrivalTime) ==
  LET k == Find(ints, venueId)
  IN  IF k # 0
      THEN [j \in 1..Len(ints) |->
              IF ints[j].venueId = venueId
              THEN [ints[j] EXCEPT
                      !.count = ints[j].count + 1,
                      !.lastInteraction = now,
                      !.arrivalTime = arrivalTime,
                      !.timestamp = now]
              ELSE ints[j]]
      ELSE Append(ints,
             [venueId |-> venueId, count |-> 1, likes |-> 0, lastReset |-> now,
              lastInteraction |-> now, arrivalTime |-> arrivalTime,
              timestamp |-> now, lastLikeReset |-> now, dailyLikesUsed |-> 0,
              likeTimeSlot |-> UNDEFINED])

\* VisitUpdate that adds a new record even when the venue already has one
VisitUpdate_AlwaysAppend(ints, venueId, arrivalTime) ==
  Append(ints,
    [venueId |-> venueId, count |-> 1, likes |-> 0, lastReset |-> now,
     lastInteraction |-> now, arrivalTime |-> arrivalTime,
     timestamp |-> now, lastLikeReset |-> now, dailyLikesUsed |-> 0,
     likeTimeSlot |-> UNDEFINED])


\* the state update of an accepted incrementInteraction
VisitUpdate(ints, venueId, arrivalTime) ==
  LET k == Find(ints, venueId)
  IN  IF k # 0
      THEN [j \in 1..Len(ints) |->
              IF ints[j].venueId = venueId
              THEN [ints[j] EXCEPT
                      !.count = ints[j].count + 1,
                      !.lastInteraction = now,
                      !.arrivalTime = IF arrivalTime = UNDEFINED \/ arrivalTime = ""
                                      THEN ints[j].arrivalTime ELSE arrivalTime,
                      !.timestamp = now]
              ELSE ints[j]]
      ELSE Append(ints,
             [venueId |-> venueId, count |-> 1, likes |-> 0, lastReset |-> now,
              lastInteraction |-> now, arrivalTime |-> arrivalTime,
              timestamp |-> now, lastLikeReset |-> now, dailyLikesUsed |-> 0,
              likeTimeSlot |-> UNDEFINED])

\* LikeUpdate that does not count the like against the daily quota
LikeUpdate_NoQuota(ints, venueId, timeSlot) ==
  LET k == Find(ints, venueId)
  IN  IF k # 0
      THEN [j \in 1..Len(ints) |->
              IF ints[j].venueId = venueId
              THEN [ints[j] EXCEPT
                      !.likes = ints[j].likes + 1,
                      !.timestamp = now,
                      !.likeTimeSlot = timeSlot]
              ELSE ints[j]]
      ELSE Append(ints,
             [venueId |-> venueId, count |-> 0, likes |-> 1, lastReset |-> now,
              lastInteraction |-> NoTime, arrivalTime |-> UNDEFINED,
              timestamp |-> now, lastLikeReset |-> now, dailyLikesUsed |-> 0,
              likeTimeSlot |-> timeSlot])

\* LikeUpdate that also stamps lastInteraction, as the visit update does
LikeUpdate_StampsVisit(ints, venueId, timeSlot) ==
  LET k == Find(ints, venueId)
  IN  IF k # 0
      THEN LET shouldResetLikesForVenue == shouldResetLikes(ints[k].lastLikeReset)
               dailyLikesUsed == IF shouldResetLikesForVenue THEN 0
                                 ELSE ints[k].dailyLikesUsed
           IN  [j \in 1..Len(ints) |->
                  IF ints[j].venueId = venueId
                  THEN [ints[j] EXCEPT
                          !.likes = ints[j].likes + 1,
                          !.timestamp = now,
                          !.lastInteraction = now,
                          !.lastLikeReset = IF shouldResetLikesForVenue THEN now
                                            ELSE ints[j].lastLikeReset,
                          !.dailyLikesUsed = dailyLikesUsed + 1,
                          !.likeTimeSlot = timeSlot]
                  ELSE ints[j]]
      ELSE Append(ints,
             [venueId |-> venueId, count |-> 0, likes |-> 1, lastReset |-> now,
              lastInteraction |-> NoTime, arrivalTime |-> UNDEFINED,
              timestamp |-> now, lastLikeReset |-> now, dailyLikesUsed |-> 1,
              likeTimeSlot |-> timeSlot])

\* LikeUpdate that restarts the like window of a liked record at its lastReset
LikeUpdate_WindowFromVisit(ints, venueId, timeSlot) ==
  LET k == Find(ints, venueId)
  IN  IF k # 0
      THEN LET shouldResetLikesForVenue == shouldResetLikes(ints[k].lastLikeReset)
               dailyLikesUsed == IF shouldResetLikesForVenue THEN 0
                                 ELSE ints[k].dailyLikesUsed
           IN  [j \in 1..Len(ints) |->
                  IF ints[j].venueId = venueId
                  THEN [ints[j] EXCEPT
                          !.likes = ints[j].likes + 1,
                          !.timestamp = now,
                          !.lastLikeReset = IF shouldResetLikesForVenue THEN now
                                            ELSE ints[j].lastReset,
                          !.dailyLikesUsed = dailyLikesUsed + 1,
                          !.likeTimeSlot = timeSlot]
                  ELSE ints[j]]
      ELSE Append(ints,
             [venueId |-> venueId, count |-> 0, likes |-> 1, lastReset |-> now,
              lastInteraction |-> NoTime, arrivalTime |-> UNDEFINED,
              timestamp |-> now, lastLikeReset |-> now, dailyLikesUsed |-> 1,
              likeTimeSlot |-> timeSlot])


\* the state update of an accepted likeVenue
LikeUpdate(ints, venueId, timeSlot) ==
  LET k == Find(ints, venueId)
  IN  IF k # 0
      THEN LET shouldResetLikesForVenue == shouldResetLikes(ints[k].lastLikeReset)
               dailyLikesUsed == IF shouldResetLikesForVenue THEN 0
                                 ELSE ints[k].dailyLikesUsed
           IN  [j \in 1..Len(ints) |->
                  IF ints[j].venueId = venueId
                  THEN [ints[j] EXCEPT
                          !.likes = ints[j].likes + 1,
                          !.timestamp = now,
                          !.lastLikeReset = IF shouldResetLikesForVenue THEN now
                                            ELSE ints[j].lastLikeReset,
                          !.dailyLikesUsed = dailyLikesUsed + 1,
                          !.likeTimeSlot = timeSlot]
                  ELSE ints[j]]
      ELSE Append(ints,
             [venueId |-> venueId, count |-> 0, likes |-> 1, lastReset |-> now,
              lastInteraction |-> NoTime, arrivalTime |-> UNDEFINED,
              timestamp |-> now, lastLikeReset |-> now, dailyLikesUsed |-> 1,
              likeTimeSlot |-> timeSlot])

-----------------------------------------------------------------------------
(* The most recent call: its name, arguments, result and side effects; the  *)
(* result is ret, with a number returned in num and an array in rows.       *)
(* likedAt[v] is the instant of the last accepted likeVenue for v (the now   *)
(* of that call), NoTime before the first.                                  *)
(* tagged[s] is the number of accepted visits made with the slot s in the   *)
(* slot scenario, which alone counts them.                                  *)
(* effects lists the calls the handler made to other functions, in the     *)
(* order it made them.                                                     *)
(* visitedAt[v] is the set of instants of the accepted visits of v in the  *)
(* idle-gap scenario, which alone records them.                            *)
(* remote[v] is the row of the venue v in the remote venue_interactions    *)
(* table, NoRow while the table has none.                                  *)
(* ms is the clock of the debounce scenario in milliseconds, timers[f] the *)
(* timer of the debounced function f, calls the calls made of the          *)
(* debounced functions and delivered the calls their timers made of the    *)
(* wrapped functions, both in order.  profile is the profile of the user   *)
(* profile store and stats the statistics last passed to                   *)
(* checkAndUpdateMultiLevelAchievements; startProfile is the profile the   *)
(* debounce scenario started from.                                         *)
(* profiles[u] is the row of the user u in the remote profiles table,      *)
(* reply the result of the last createProfile mutation, network whether    *)
(* the device reaches the remote store, and inflight the remote writes of  *)
(* updateProfile that have not been answered yet.                          *)
(* isLoading is the flag of the user profile store, awaiting the handlers   *)
(* of the store that wait at an await, awarded the types of the awards      *)
(* that awardXP has made and nightsCounted the instants at which            *)
(* incrementNightsOut has raised nights_out, both in order.                 *)

Call(op, venueId, arg, ret, num, accepted, isNewBar, effects) ==
  [op |-> op, venueId |-> venueId, arg |-> arg, ret |-> ret, num |-> num,
   rows |-> <<>>, accepted |-> accepted, isNewBar |-> isNewBar, effects |-> effects]

NoneTagged == [s \in SlotArgs |-> 0]

Idle == Call("none", "", UNDEFINED, UNDEFINED, 0, FALSE, FALSE, <<>>)

\* no accepted visit recorded yet
NoVisits == [v \in Venues |-> {}]

\* the venue has no row in the remote table
NoRow == [count |-> 0, likes |-> 0, timestamp |-> NoTime]

\* the three debounced functions and their waits in milliseconds
Debounced == {"debouncedAwardXP", "debouncedAwardLikeXP", "debouncedUpdateAchievements"}

Wait == [debouncedAwardXP |-> 300, debouncedAwardLikeXP |-> 300,
         debouncedUpdateAchievements |-> 500]

\* no timeout is set
NoTimer == [pending |-> FALSE, due |-> 0, args |-> <<>>, call |-> 0]

\* no profile is loaded (profile: null)
NoProfile ==
  [loaded |-> FALSE, id |-> "", xp |-> 0, visited_bars |-> <<>>, bars_hit |-> 0,
   nights_out |-> 0, xp_activities |-> <<>>, photos_taken |-> 0,
   total_shots |-> 0, last_night_out_date |-> NoTime,
   friends |-> <<>>, friend_requests |-> <<>>]

\* the users of the remote profiles table
UserIds == {"u1", "u2"}

\* the user has no row in the remote profiles table
NoProfileRow ==
  [exists |-> FALSE, username |-> "", phone |-> NULL, xp |-> 0,
   visited_bars |-> <<>>, bars_hit |-> 0, nights_out |-> 0,
   xp_activities |-> <<>>, photos_taken |-> 0, total_shots |-> 0,
   last_night_out_date |-> NoTime]

\* createProfile has not been called
NoReply ==
  [outcome |-> "none", userId |-> "", threw |-> FALSE, success |-> FALSE,
   profileId |-> UNDEFINED, error |-> UNDEFINED, message |-> UNDEFINED]

\* the remote store is empty and reachable, nothing has been asked of it
BackendInit ==
  /\ profiles = [u \in UserIds |-> NoProfileRow]
  /\ reply = NoReply
  /\ network = "up"
  /\ inflight = <<>>

\* checkAndUpdateMultiLevelAchievements has not been called
NoStats == [passed |-> FALSE, barsHit |-> 0]

\* the user profile store after construction: nothing is loading, no handler
\* waits at an await, awardXP has not been called, no night out counted
SessionInit ==
  /\ isLoading = FALSE
  /\ awaiting = <<>>
  /\ awarded = <<>>
  /\ nightsCounted = <<>>

\* no debounced function has been called
TimersInit ==
  /\ ms = 0
  /\ timers = [f \in Debounced |-> NoTimer]
  /\ calls = <<>>
  /\ delivered = <<>>

\* the start of the variables of the later sections
BeyondInit ==
  /\ visitedAt = NoVisits
  /\ remote = [v \in Venues |-> NoRow]
  /\ TimersInit
  /\ profile = NoProfile
  /\ stats = NoStats
  /\ startProfile = NoProfile
  /\ BackendInit
  /\ SessionInit

BoolStr(b) == IF b THEN "true" ELSE "false"

VisitEffects == <<"debouncedAwardXP", "debouncedUpdateAchievements", "syncToSupabase">>
LikeEffects == <<"debouncedAwardLikeXP", "debouncedUpdateAchievements", "forceUpdate">>

-----------------------------------------------------------------------------
(* Operations of the store *)

resetInteractionsIfNeeded ==
  /\ interactions' = ResetPass(interactions)
  /\ last' = Call("resetInteractionsIfNeeded", "", UNDEFINED, UNDEFINED, 0, FALSE, FALSE, <<>>)
  /\ UNCHANGED <<now, likedAt>>

canInteract(venueId) ==
  /\ IF venueId = ""
     THEN /\ UNCHANGED interactions
          /\ last' = Call("canInteract", venueId, UNDEFINED, "false", 0, FALSE, FALSE, <<>>)
     ELSE LET s1 == ResetPass(interactions)
          IN  /\ interactions' = s1
              /\ last' = Call("canInteract", venueId, UNDEFINED,
                              BoolStr(CanInteractOn(s1, venueId)), 0, FALSE, FALSE, <<>>)
  /\ UNCHANGED <<now, likedAt>>

\* canLikeVenue answering from the ledger as it is, without the reset pass
canLikeVenue_NoResetPass(venueId) ==
  /\ last' = Call("canLikeVenue", venueId, UNDEFINED,
                  IF venueId = "" THEN "false"
                  ELSE BoolStr(CanLikeOn(interactions, venueId)), 0, FALSE, FALSE, <<>>)
  /\ UNCHANGED <<interactions, now, likedAt>>


canLikeVenue(venueId) ==
  /\ IF venueId = ""
     THEN /\ UNCHANGED interactions
          /\ last' = Call("canLikeVenue", venueId, UNDEFINED, "false", 0, FALSE, FALSE, <<>>)
     ELSE LET s1 == ResetPass(interactions)
          IN  /\ interactions' = s1
              /\ last' = Call("canLikeVenue", venueId, UNDEFINED,
                              BoolStr(CanLikeOn(s1, venueId)), 0, FALSE, FALSE, <<>>)
  /\ UNCHANGED <<now, likedAt>>

getInteractionCount(venueId) ==
  /\ IF venueId = ""
     THEN /\ UNCHANGED interactions
          /\ last' = Call("getInteractionCount", venueId, UNDEFINED, "number", 0, FALSE, FALSE, <<>>)
     ELSE LET s1 == ResetPass(interactions)
              k == Find(s1, venueId)
          IN  /\ interactions' = s1
              /\ last' = Call("getInteractionCount", venueId, UNDEFINED, "number",
                              IF k = 0 THEN 0 ELSE s1[k].count, FALSE, FALSE, <<>>)
  /\ UNCHANGED <<now, likedAt>>

\* incrementInteraction without the canInteract check
incrementInteraction_NoGuard(venueId, arrivalTime) ==
  /\ IF venueId = ""
     THEN /\ UNCHANGED interactions
          /\ last' = Call("incrementInteraction", venueId, arrivalTime, UNDEFINED, 0,
                          FALSE, FALSE, <<>>)
     ELSE LET s1 == ResetPass(interactions)
          IN  /\ interactions' = VisitUpdate(s1, venueId, arrivalTime)
              /\ last' = Call("incrementInteraction", venueId, arrivalTime,
                              UNDEFINED, 0, TRUE, Find(s1, venueId) = 0,
                              VisitEffects)
  /\ UNCHANGED <<now, likedAt>>

\* incrementInteraction that lets the failure of the replication escape
\* before the ledger is written
incrementInteraction_SurfacesSync(venueId, arrivalTime) ==
  /\ IF venueId = ""
     THEN /\ UNCHANGED interactions
          /\ last' = Call("incrementInteraction", venueId, arrivalTime, UNDEFINED, 0,
                          FALSE, FALSE, <<>>)
     ELSE LET s1 == ResetPass(interactions)
              s2 == ResetPass(s1)
          IN  IF ~CanInteractOn(s2, venueId)
              THEN /\ interactions' = s2
                   /\ last' = Call("incrementInteraction", venueId, arrivalTime,
                                   UNDEFINED, 0, FALSE, FALSE, <<>>)
              ELSE /\ interactions' = s2
                   /\ last' = Call("incrementInteraction", venueId, arrivalTime,
                                   "throws", 0, TRUE, Find(s2, venueId) = 0,
                                   <<"syncToSupabase">>)
  /\ UNCHANGED <<now, likedAt>>

\* incrementInteraction that takes a venue for new whenever the visit is
\* the first of its window
incrementInteraction_NewByCount(venueId, arrivalTime) ==
  /\ IF venueId = ""
     THEN /\ UNCHANGED interactions
          /\ last' = Call("incrementInteraction", venueId, arrivalTime, UNDEFINED, 0,
                          FALSE, FALSE, <<>>)
     ELSE LET s1 == ResetPass(interactions)
              s2 == ResetPass(s1)
          IN  IF ~CanInteractOn(s2, venueId)
              THEN /\ interactions' = s2
                   /\ last' = Call("incrementInteraction", venueId, arrivalTime,
                                   UNDEFINED, 0, FALSE, FALSE, <<>>)
              ELSE /\ interactions' = VisitUpdate(s2, venueId, arrivalTime)
                   /\ last' = Call("incrementInteraction", venueId, arrivalTime,
                                   UNDEFINED, 0, TRUE,
                                   \/ Find(s2, venueId) = 0
                                   \/ s2[Find(s2, venueId)].count = 0,
                                   VisitEffects)
  /\ UNCHANGED <<now, likedAt>>

incrementInteraction(venueId, arrivalTime) ==
  /\ IF venueId = ""
     THEN /\ UNCHANGED interactions
          /\ last' = Call("incrementInteraction", venueId, arrivalTime, UNDEFINED, 0,
                          FALSE, FALSE, <<>>)
     ELSE LET s1 == ResetPass(interactions)
              s2 == ResetPass(s1)
          IN  IF ~CanInteractOn(s2, venueId)
              THEN /\ interactions' = s2
                   /\ last' = Call("incrementInteraction", venueId, arrivalTime,
                                   UNDEFINED, 0, FALSE, FALSE, <<>>)
              ELSE /\ interactions' = VisitUpdate(s2, venueId, arrivalTime)
                   /\ last' = Call("incrementInteraction", venueId, arrivalTime,
                                   UNDEFINED, 0, TRUE, Find(s2, venueId) = 0,
                                   VisitEffects)
  /\ UNCHANGED <<now, likedAt>>

\* likeVenue checking venueId alone
likeVenue_NoSlotCheck(venueId, timeSlot) ==
  /\ IF venueId = ""
     THEN /\ UNCHANGED <<interactions, likedAt>>
          /\ last' = Call("likeVenue", venueId, timeSlot, UNDEFINED, 0, FALSE, FALSE, <<>>)
     ELSE LET s1 == ResetPass(interactions)
          IN  IF ~CanLikeOn(s1, venueId)
              THEN /\ interactions' = s1
                   /\ last' = Call("likeVenue", venueId, timeSlot, UNDEFINED, 0,
                                   FALSE, FALSE, <<>>)
                   /\ UNCHANGED likedAt
              ELSE /\ interactions' = LikeUpdate(s1, venueId, timeSlot)
                   /\ last' = Call("likeVenue", venueId, timeSlot, UNDEFINED, 0,
                                   TRUE, FALSE, LikeEffects)
                   /\ likedAt' = [likedAt EXCEPT ![venueId] = now]
  /\ UNCHANGED now

likeVenue(venueId, timeSlot) ==
  /\ IF venueId = "" \/ timeSlot = ""
     THEN /\ UNCHANGED <<interactions, likedAt>>
          /\ last' = Call("likeVenue", venueId, timeSlot, UNDEFINED, 0, FALSE, FALSE, <<>>)
     ELSE LET s1 == ResetPass(interactions)
          IN  IF ~CanLikeOn(s1, venueId)
              THEN /\ interactions' = s1
                   /\ last' = Call("likeVenue", venueId, timeSlot, UNDEFINED, 0,
                                   FALSE, FALSE, <<>>)
                   /\ UNCHANGED likedAt
              ELSE /\ interactions' = LikeUpdate(s1, venueId, timeSlot)
                   /\ last' = Call("likeVenue", venueId, timeSlot, UNDEFINED, 0,
                                   TRUE, FALSE, LikeEffects)
                   /\ likedAt' = [likedAt EXCEPT ![venueId] = now]
  /\ UNCHANGED now

\* value returned by getLikeCount on the ledger ints
LikeCountOf(ints, venueId) ==
  IF venueId = "" THEN 0
  ELSE LET k == Find(ints, venueId)
       IN  IF k = 0 THEN 0 ELSE ints[k].likes

getLikeCount(venueId) ==
  /\ last' = Call("getLikeCount", venueId, UNDEFINED, "number",
                  LikeCountOf(interactions, venueId), FALSE, FALSE, <<>>)
  /\ UNCHANGED <<interactions, now, likedAt>>


\* the sum of a sequence of numbers (Array.reduce with +)
RECURSIVE SumOf(_)
SumOf(nums) ==
  IF nums = <<>> THEN 0
  ELSE SumOf(SubSeq(nums, 1, Len(nums) - 1)) + nums[Len(nums)]

CountsOf(ints) == [k \in 1..Len(ints) |-> ints[k].count]
LikesOf(ints) == [k \in 1..Len(ints) |-> ints[k].likes]

\* value returned by getTotalBarsVisited on the ledger ints
TotalBarsVisitedOf(ints) ==
  Len(SelectSeq(ints, LAMBDA i : i.venueId # "" /\ (i.likes > 0 \/ i.count > 0)))

getTotalBarsVisited ==
  /\ last' = Call("getTotalBarsVisited", "", UNDEFINED, "number",
                  TotalBarsVisitedOf(interactions), FALSE, FALSE, <<>>)
  /\ UNCHANGED <<interactions, now, likedAt>>

\* entries.sort((a, b) => b.likes - a.likes): the sort is stable, so entries
\* with equal likes keep the order they had
InsertByLikes(sorted, x) ==
  LET n == Cardinality({j \in 1..Len(sorted) : sorted[j].likes >= x.likes})
  IN  SubSeq(sorted, 1, n) \o <<x>> \o SubSeq(sorted, n + 1, Len(sorted))

RECURSIVE SortByLikes(_)
SortByLikes(entries) ==
  IF entries = <<>> THEN <<>>
  ELSE InsertByLikes(SortByLikes(SubSeq(entries, 1, Len(entries) - 1)),
                     entries[Len(entries)])

\* value returned by getMostPopularVenues on the ledger ints
MostPopularVenuesOf(ints) ==
  LET listed == SelectSeq(ints, LAMBDA i : i.venueId # "")
      entries == [k \in 1..Len(listed) |->
                    [venueId |-> listed[k].venueId, likes |-> listed[k].likes]]
      sorted == SortByLikes(entries)
  IN  SubSeq(sorted, 1, IF Len(sorted) < TopVenues THEN Len(sorted) ELSE TopVenues)

getMostPopularVenues ==
  /\ last' = [Call("getMostPopularVenues", "", UNDEFINED, "array", 0, FALSE, FALSE, <<>>)
                EXCEPT !.rows = MostPopularVenuesOf(interactions)]
  /\ UNCHANGED <<interactions, now, likedAt>>

\* the arrivalTime values of the records of ints, each once, in the order of
\* their first occurrence (the keys of the object the handlers fill)
RECURSIVE SlotKeys(_)
SlotKeys(ints) ==
  IF ints = <<>> THEN <<>>
  ELSE LET front == SlotKeys(SubSeq(ints, 1, Len(ints) - 1))
           slot == ints[Len(ints)].arrivalTime
       IN  IF \E n \in 1..Len(front) : front[n] = slot THEN front
           ELSE Append(front, slot)

\* value returned by getTimeSlotData on the ledger ints
TimeSlotDataOf(ints, venueId) ==
  IF venueId = "" THEN <<>>
  ELSE LET venueInteractions == SelectSeq(ints, LAMBDA i : i.venueId = venueId)
           withSlot == SelectSeq(venueInteractions,
                        LAMBDA i : i.arrivalTime # UNDEFINED /\ i.arrivalTime # "")
           keys == SlotKeys(withSlot)
       IN  [n \in 1..Len(keys) |->
              LET ofSlot == SelectSeq(withSlot, LAMBDA i : i.arrivalTime = keys[n])
              IN  [time |-> keys[n],
                   count |-> SumOf(CountsOf(ofSlot)),
                   likes |-> SumOf(LikesOf(ofSlot))]]

getTimeSlotData(venueId) ==
  /\ last' = [Call("getTimeSlotData", venueId, UNDEFINED, "array", 0, FALSE, FALSE, <<>>)
                EXCEPT !.rows = TimeSlotDataOf(interactions, venueId)]
  /\ UNCHANGED <<interactions, now, likedAt>>

\* the position of the slot s in SlotOrder
SlotRank(s) == CHOOSE n \in 1..Len(SlotOrder) : SlotOrder[n] = s

\* times.sort(): the slots of the set S in the order of their strings
RECURSIVE SortedSlots(_)
SortedSlots(S) ==
  IF S = {} THEN <<>>
  ELSE LET first == CHOOSE s \in S : \A t \in S : SlotRank(s) <= SlotRank(t)
       IN  <<first>> \o SortedSlots(S \ {first})

\* times.join('/')
RECURSIVE JoinSlash(_)
JoinSlash(times) ==
  IF Len(times) = 0 THEN ""
  ELSE IF Len(times) = 1 THEN times[1]
  ELSE times[1] \o "/" \o JoinSlash(Tail(times))

\* value returned by getPopularArrivalTime on the ledger ints
PopularArrivalTimeOf(ints, venueId) ==
  IF venueId = "" THEN NULL
  ELSE LET allInteractions ==
             SelectSeq(ints, LAMBDA i : /\ i.venueId = venueId
                                        /\ i.arrivalTime # UNDEFINED
                                        /\ i.arrivalTime # ""
                                        /\ i.count > 0)
           keys == SlotKeys(allInteractions)
           timeCounts == [n \in 1..Len(keys) |->
                            SumOf(CountsOf(SelectSeq(allInteractions,
                                     LAMBDA i : i.arrivalTime = keys[n])))]
       IN  IF Len(allInteractions) = 0 THEN NULL
           ELSE LET maxCount == CHOOSE c \in {timeCounts[n] : n \in 1..Len(keys)} :
                                  \A n \in 1..Len(keys) : timeCounts[n] <= c
                    popularTimes == {keys[n] : n \in {m \in 1..Len(keys) :
                                                       timeCounts[m] = maxCount}}
                IN  JoinSlash(SortedSlots(popularTimes))

getPopularArrivalTime(venueId) ==
  /\ last' = Call("getPopularArrivalTime", venueId, UNDEFINED,
                  PopularArrivalTimeOf(interactions, venueId), 0, FALSE, FALSE, <<>>)
  /\ UNCHANGED <<interactions, now, likedAt>>


\* the wall clock moves on to the instant t
Tick(t) ==
  /\ t > now
  /\ now' = t
  /\ last' = Idle
  /\ UNCHANGED <<interactions, likedAt>>

\* any call on the venues VS, or the clock moving on to an instant of TP
Step(VS, TP) ==
  \/ resetInteractionsIfNeeded /\ UNCHANGED <<pc, tagged, beyond>>
  \/ \E v \in VS : canInteract(v) /\ UNCHANGED <<pc, tagged, beyond>>
  \/ \E v \in VS : canLikeVenue(v) /\ UNCHANGED <<pc, tagged, beyond>>
  \/ \E v \in VS : getInteractionCount(v) /\ UNCHANGED <<pc, tagged, beyond>>
  \/ \E v \in VS \cup {""}, a \in ArrivalArgs :
       incrementInteraction(v, a) /\ UNCHANGED <<pc, tagged, beyond>>
  \/ \E v \in VS \cup {""}, s \in LikeSlotArgs : likeVenue(v, s)
       /\ UNCHANGED <<pc, tagged, beyond>>
  \/ \E t \in TP : Tick(t) /\ UNCHANGED <<pc, tagged, beyond>>

(* One venue, over the instants of TimePoints *)

Init ==
  /\ interactions = <<>>
  /\ now \in TimePoints
  /\ last = Idle
  /\ likedAt = [v \in Venues |-> NoTime]
  /\ pc = "free"
  /\ tagged = NoneTagged
  /\ BeyondInit

Next == Step({"bar1"}, TimePoints)

Spec == Init /\ [][Next]_vars

(* Two venues, over the instants of PairPoints: the calls that write records *)

InitTwo ==
  /\ interactions = <<>>
  /\ now \in PairPoints
  /\ last = Idle
  /\ likedAt = [v \in Venues |-> NoTime]
  /\ pc = "free"
  /\ tagged = NoneTagged
  /\ BeyondInit

NextTwo ==
  \/ resetInteractionsIfNeeded /\ UNCHANGED <<pc, tagged, beyond>>
  \/ \E v \in Venues, a \in ArrivalArgs : incrementInteraction(v, a)
       /\ UNCHANGED <<pc, tagged, beyond>>
  \/ \E v \in Venues, s \in LikeSlotArgs : likeVenue(v, s)
       /\ UNCHANGED <<pc, tagged, beyond>>
  \/ \E t \in PairPoints : Tick(t) /\ UNCHANGED <<pc, tagged, beyond>>

SpecTwo == InitTwo /\ [][NextTwo]_vars


(* The end-to-end scenario: from an empty ledger at any minute T0 of a day, *)
(* a visit to "bar1" with slot "20:00", a second visit 30 minutes later and *)
(* a third 2 hours 1 minute after the first, each followed by               *)
(* getInteractionCount("bar1").                                             *)

\* T0 + 30min and T0 + 2h1min
SecondVisitAfter == MinutesPerHour \div 2
ThirdVisitAfter == INTERACTION_COOLDOWN_HOURS * MinutesPerHour + 1

E2EStarts == 0..(MinutesPerDay - 1)

InitE2E ==
  /\ interactions = <<>>
  /\ now \in E2EStarts
  /\ last = Idle
  /\ likedAt = [v \in Venues |-> NoTime]
  /\ pc = "visit1"
  /\ tagged = NoneTagged
  /\ BeyondInit

NextE2E ==
  \/ pc = "visit1" /\ incrementInteraction("bar1", "20:00") /\ pc' = "count1"
       /\ UNCHANGED <<tagged, beyond>>
  \/ pc = "count1" /\ getInteractionCount("bar1") /\ pc' = "wait2"
       /\ UNCHANGED <<tagged, beyond>>
  \/ pc = "wait2" /\ Tick(now + SecondVisitAfter) /\ pc' = "visit2"
       /\ UNCHANGED <<tagged, beyond>>
  \/ pc = "visit2" /\ (\E a \in ArrivalArgs : incrementInteraction("bar1", a))
       /\ pc' = "count2" /\ UNCHANGED <<tagged, beyond>>
  \/ pc = "count2" /\ getInteractionCount("bar1") /\ pc' = "wait3"
       /\ UNCHANGED <<tagged, beyond>>
  \/ pc = "wait3" /\ Tick(now + ThirdVisitAfter - SecondVisitAfter) /\ pc' = "visit3"
       /\ UNCHANGED <<tagged, beyond>>
  \/ pc = "visit3" /\ (\E a \in ArrivalArgs : incrementInteraction("bar1", a))
       /\ pc' = "count3" /\ UNCHANGED <<tagged, beyond>>
  \/ pc = "count3" /\ getInteractionCount("bar1") /\ pc' = "done"
       /\ UNCHANGED <<tagged, beyond>>

SpecE2E == InitE2E /\ [][NextE2E]_vars

-----------------------------------------------------------------------------
(* shouldReset on its own: any valid lastReset against any valid clock value *)

\* minutes of the day around midnight and the two boundaries
DateMinutes == {0, 240, 299, 300, 301, 1439}

DateSamples == {d * MinutesPerDay + m : d \in 0..MaxDay, m \in DateMinutes}

callShouldReset(lastReset) ==
  /\ last' = Call("shouldReset", "", UNDEFINED, BoolStr(shouldReset(lastReset)),
                  lastReset, FALSE, FALSE, <<>>)
  /\ UNCHANGED <<interactions, now, likedAt>>

InitShouldReset ==
  /\ interactions = <<>>
  /\ now \in DateSamples
  /\ last = Idle
  /\ likedAt = [v \in Venues |-> NoTime]
  /\ pc = "free"
  /\ tagged = NoneTagged
  /\ BeyondInit

NextShouldReset ==
  \/ \E lastReset \in DateSamples : callShouldReset(lastReset)
       /\ UNCHANGED <<pc, tagged, beyond>>
  \/ \E t \in DateSamples : Tick(t) /\ UNCHANGED <<pc, tagged, beyond>>

SpecShouldReset == InitShouldReset /\ [][NextShouldReset]_vars

-----------------------------------------------------------------------------

(* Two venues with the queries: visits and likes with valid arguments, the   *)
(* reset pass, and every query of the store, over the instants QueryPoints   *)

QueryPoints == {240, 300, 420}

InitQuery ==
  /\ interactions = <<>>
  /\ now \in QueryPoints
  /\ last = Idle
  /\ likedAt = [v \in Venues |-> NoTime]
  /\ pc = "free"
  /\ tagged = NoneTagged
  /\ BeyondInit

NextQuery ==
  \/ resetInteractionsIfNeeded /\ UNCHANGED <<pc, tagged, beyond>>
  \/ \E v \in Venues : incrementInteraction(v, "20:00")
       /\ UNCHANGED <<pc, tagged, beyond>>
  \/ \E v \in Venues : likeVenue(v, "21:00") /\ UNCHANGED <<pc, tagged, beyond>>
  \/ \E v \in Venues \cup {""} : canInteract(v) /\ UNCHANGED <<pc, tagged, beyond>>
  \/ \E v \in Venues \cup {""} : canLikeVenue(v) /\ UNCHANGED <<pc, tagged, beyond>>
  \/ \E v \in Venues \cup {""} : getInteractionCount(v)
       /\ UNCHANGED <<pc, tagged, beyond>>
  \/ \E v \in Venues \cup {""} : getLikeCount(v) /\ UNCHANGED <<pc, tagged, beyond>>
  \/ getTotalBarsVisited /\ UNCHANGED <<pc, tagged, beyond>>
  \/ getMostPopularVenues /\ UNCHANGED <<pc, tagged, beyond>>
  \/ \E v \in Venues \cup {""} : getTimeSlotData(v) /\ UNCHANGED <<pc, tagged, beyond>>
  \/ \E v \in Venues \cup {""} : getPopularArrivalTime(v)
       /\ UNCHANGED <<pc, tagged, beyond>>
  \/ \E t \in QueryPoints : Tick(t) /\ UNCHANGED <<pc, tagged, beyond>>

SpecQuery == InitQuery /\ [][NextQuery]_vars

-----------------------------------------------------------------------------

(* One venue whose record was rehydrated from 'venue-interactions-storage':  *)
(* each of its stored timestamps is either the instant it was written at or  *)
(* a string that does not parse as a date                                    *)

\* the instant at which the stored record was written (04:00 of day 0)
StoredAt == 4 * MinutesPerHour

StoredStamps == {StoredAt, InvalidDate}

InitRehydrated ==
  /\ \E lr \in StoredStamps, li \in StoredStamps, llr \in StoredStamps :
       interactions =
         <<[venueId |-> "bar1", count |-> 1, likes |-> 1, lastReset |-> lr,
            lastInteraction |-> li, arrivalTime |-> "20:00", timestamp |-> StoredAt,
            lastLikeReset |-> llr, dailyLikesUsed |-> 1, likeTimeSlot |-> "21:00"]>>
  /\ now \in PairPoints
  /\ last = Idle
  /\ likedAt = [v \in Venues |-> NoTime]
  /\ pc = "free"
  /\ tagged = NoneTagged
  /\ BeyondInit

NextRehydrated == Step({"bar1"}, PairPoints)

SpecRehydrated == InitRehydrated /\ [][NextRehydrated]_vars

-----------------------------------------------------------------------------

(* The slot scenario: from the empty ledger at 05:00, within one visit       *)
(* window, visits of "bar1" tagged with a slot of SlotArgs, the clock moving *)
(* on by two hours at a time, and getPopularArrivalTime("bar1")              *)

\* the 05:00 that opens the visit window of the scenario, and the next one
SlotWindowStart == RESET_HOUR * MinutesPerHour
SlotWindowEnd == SlotWindowStart + MinutesPerDay

\* the clock of the scenario moves on by the cooldown
SlotStep == INTERACTION_COOLDOWN_HOURS * MinutesPerHour

\* incrementInteraction("bar1", slot), counted in tagged when it is accepted
visitTagged(slot) ==
  /\ incrementInteraction("bar1", slot)
  /\ tagged' = IF last'.accepted THEN [tagged EXCEPT ![slot] = @ + 1] ELSE tagged

InitSlots ==
  /\ interactions = <<>>
  /\ now = SlotWindowStart
  /\ last = Idle
  /\ likedAt = [v \in Venues |-> NoTime]
  /\ pc = "free"
  /\ tagged = NoneTagged
  /\ BeyondInit

NextSlots ==
  \/ \E slot \in SlotArgs : visitTagged(slot) /\ UNCHANGED <<pc, beyond>>
  \/ getPopularArrivalTime("bar1") /\ UNCHANGED <<pc, tagged, beyond>>
  \/ now + SlotStep < SlotWindowEnd /\ Tick(now + SlotStep)
       /\ UNCHANGED <<pc, tagged, beyond>>

SpecSlots == InitSlots /\ [][NextSlots]_vars

-----------------------------------------------------------------------------

(* Replication to the remote store.  syncToSupabase is an async function   *)
(* whose try block is empty: it reads and writes nothing, and its promise  *)
(* is fulfilled with undefined as soon as it is called.  The remote table  *)
(* is written by the other devices of the user.                            *)

\* a syncToSupabase that adds the counts of the local record to the remote row
SyncedRemote_Accumulates(store, ints, venueId, arrivalTime) ==
  IF Find(ints, venueId) = 0 THEN store
  ELSE [store EXCEPT ![venueId] =
          [count |-> @.count + ints[Find(ints, venueId)].count,
           likes |-> @.likes + ints[Find(ints, venueId)].likes,
           timestamp |-> ints[Find(ints, venueId)].timestamp]]

\* the remote table after syncToSupabase(venueId, arrivalTime)
SyncedRemote(store, ints, venueId, arrivalTime) == store

\* the ledger after syncToSupabase(venueId, arrivalTime)
SyncedLocal(store, ints, venueId, arrivalTime) == ints

syncToSupabase(venueId, arrivalTime) ==
  /\ remote' = SyncedRemote(remote, interactions, venueId, arrivalTime)
  /\ interactions' = SyncedLocal(remote, interactions, venueId, arrivalTime)
  /\ last' = Call("syncToSupabase", venueId, arrivalTime, UNDEFINED, 0,
                  FALSE, FALSE, <<>>)
  /\ UNCHANGED <<now, likedAt>>

\* incrementInteraction with the syncToSupabase call it makes when accepted
visitSynced(venueId, arrivalTime) ==
  /\ incrementInteraction(venueId, arrivalTime)
  /\ remote' = IF last'.accepted
               THEN SyncedRemote(remote, interactions', venueId, arrivalTime)
               ELSE remote

\* the counts another device may have written
RemoteCounts == {1, 2}

\* another device writes the row of the venue at the current instant
remoteWrite(venueId, count, likes) ==
  /\ remote' = [remote EXCEPT ![venueId] =
                  [count |-> count, likes |-> likes, timestamp |-> now]]
  /\ last' = Idle
  /\ UNCHANGED <<interactions, now, likedAt>>

\* pc counts the flushes of one snapshot made in a row: "free", "flushed"
\* after one, "reflushed" after two or more
AfterFlush == IF pc = "free" THEN "flushed" ELSE "reflushed"

InitSync ==
  /\ interactions = <<>>
  /\ now \in PairPoints
  /\ last = Idle
  /\ likedAt = [v \in Venues |-> NoTime]
  /\ pc = "free"
  /\ tagged = NoneTagged
  /\ BeyondInit

NextSync ==
  \/ \E a \in ArrivalArgs : visitSynced("bar1", a)
       /\ pc' = "free" /\ UNCHANGED <<tagged, history, timing, consumers, backend, session>>
  \/ likeVenue("bar1", "21:00")
       /\ pc' = "free" /\ UNCHANGED <<tagged, beyond>>
  \/ syncToSupabase("bar1", "20:00")
       /\ pc' = AfterFlush /\ UNCHANGED <<tagged, history, timing, consumers, backend, session>>
  \/ \E c \in RemoteCounts, l \in 0..DAILY_LIKE_LIMIT : remoteWrite("bar1", c, l)
       /\ pc' = "free" /\ UNCHANGED <<tagged, history, timing, consumers, backend, session>>
  \/ \E t \in PairPoints : Tick(t)
       /\ pc' = "free" /\ UNCHANGED <<tagged, beyond>>

SpecSync == InitSync /\ [][NextSync]_vars

-----------------------------------------------------------------------------

(* Debounced propagation.  debounce(func, wait) keeps one timeout per       *)
(* debounced function: a call clears it and sets a new one that calls func  *)
(* with the arguments of that call after wait milliseconds.  A timeout is   *)
(* taken to fire at the millisecond it is due; at that millisecond a new    *)
(* call may still come first.  The clock ms moves within the one minute     *)
(* now, so the ledger accepts one visit and one like a venue, from one      *)
(* instant of CallPoints or due timeout to the next.                        *)
(* The remote write of updateProfile is taken to answer before the next     *)
(* step, so that the statistics updateProfile passes on afterwards are      *)
(* those of the profile it has just written.                                *)

\* the milliseconds at which the scenario lets the store be called: two
\* less than every wait apart, the third more than every wait after them
CallPoints == {0, 100, 600}

\* the timeout after clearTimeout(timeout) and setTimeout(..., wait), had a
\* pending timeout been left to run
debounce_KeepsPending(timer, wait, args, call) ==
  IF timer.pending THEN timer
  ELSE [pending |-> TRUE, due |-> ms + wait, args |-> args, call |-> call]

\* the timeout after clearTimeout(timeout) and setTimeout(..., wait); call
\* is the index in calls of the call that set it
debounce(timer, wait, args, call) ==
  [pending |-> TRUE, due |-> ms + wait, args |-> args, call |-> call]

\* the timers and calls st after the debounced function f is called with args
CallDebounced(st, f, args) ==
  [timers |-> [st.timers EXCEPT
                 ![f] = debounce(st.timers[f], Wait[f], args, Len(st.calls) + 1)],
   calls |-> Append(st.calls, [fn |-> f, at |-> ms, args |-> args])]

\* the arguments the handler of the store call c passes to f
ArgsFor(f, c) ==
  CASE f = "debouncedAwardXP" -> <<c.venueId, BoolStr(c.isNewBar)>>
    [] f = "debouncedAwardLikeXP" -> <<c.venueId>>
    [] OTHER -> <<>>

\* the timers and calls after the calls the store call c made from the k-th on
RECURSIVE Scheduled(_, _, _)
Scheduled(st, c, k) ==
  IF k > Len(c.effects) THEN st
  ELSE Scheduled(IF c.effects[k] \in Debounced
                 THEN CallDebounced(st, c.effects[k], ArgsFor(c.effects[k], c))
                 ELSE st,
                 c, k + 1)

\* the debounced calls of the store call of this step
propagation ==
  LET st == Scheduled([timers |-> timers, calls |-> calls], last', 1)
  IN  /\ timers' = st.timers
      /\ calls' = st.calls

\* XP_VALUES of the activities that the stores award
XP_VALUES ==
  [visit_new_bar |-> 15, complete_night_out |-> 20, photo_taken |-> 10,
   like_bar |-> 5, check_in |-> 10]

\* visited_bars.includes(venueId)
Includes(bars, venueId) == \E k \in 1..Len(bars) : bars[k] = venueId

\* { ...p, ...updates }
RECURSIVE Merged(_, _)
Merged(p, updates) ==
  IF updates = <<>> THEN p
  ELSE Merged([p EXCEPT ![Head(updates).field] = Head(updates).value],
              Tail(updates))

\* the updates of awardXP that leave the list of activities as it is
AwardUpdates_NoActivity(p, type, venueId) ==
  <<[field |-> "xp", value |-> p.xp + XP_VALUES[type]]>>
  \o (IF type = "visit_new_bar" /\ venueId # "" /\ venueId # UNDEFINED
         /\ ~Includes(p.visited_bars, venueId)
      THEN <<[field |-> "visited_bars", value |-> Append(p.visited_bars, venueId)],
             [field |-> "bars_hit", value |-> p.bars_hit + 1]>>
      ELSE IF type = "photo_taken"
      THEN <<[field |-> "photos_taken", value |-> p.photos_taken + 1]>>
      ELSE <<>>)

\* the updates that awardXP(type, description, venueId) computes from the
\* profile p it reads: the XP, the activity (kept as its type) and the
\* counters of the type
AwardUpdates(p, type, venueId) ==
  <<[field |-> "xp", value |-> p.xp + XP_VALUES[type]],
    [field |-> "xp_activities", value |-> Append(p.xp_activities, type)]>>
  \o (IF type = "visit_new_bar" /\ venueId # "" /\ venueId # UNDEFINED
         /\ ~Includes(p.visited_bars, venueId)
      THEN <<[field |-> "visited_bars", value |-> Append(p.visited_bars, venueId)],
             [field |-> "bars_hit", value |-> p.bars_hit + 1]>>
      ELSE IF type = "photo_taken"
      THEN <<[field |-> "photos_taken", value |-> p.photos_taken + 1]>>
      ELSE <<>>)

\* the profile after awardXP(type, description, venueId): the local write
\* of the updateProfile it calls
awardXP(p, type, venueId) ==
  IF ~p.loaded \/ type \notin DOMAIN XP_VALUES THEN p
  ELSE Merged(p, AwardUpdates(p, type, venueId))

\* the profile after the function wrapped in debouncedAwardXP
debouncedAwardXP(p, venueId, isNewBar) ==
  LET p1 == awardXP(p, "check_in", venueId)
  IN  IF isNewBar = "true" \/ ~p.loaded \/ ~Includes(p.visited_bars, venueId)
      THEN awardXP(p1, "visit_new_bar", venueId)
      ELSE p1

\* the profile after the function wrapped in debouncedAwardLikeXP
debouncedAwardLikeXP(p, venueId) == awardXP(p, "like_bar", venueId)

\* the statistics of the profile p passed to checkAndUpdateMultiLevelAchievements
StatsOf(p, old) == IF p.loaded THEN [passed |-> TRUE, barsHit |-> p.bars_hit] ELSE old

\* the profile after the timeout of f calls the wrapped function with args
Consumed(p, f, args) ==
  CASE f = "debouncedAwardXP" -> debouncedAwardXP(p, args[1], args[2])
    [] f = "debouncedAwardLikeXP" -> debouncedAwardLikeXP(p, args[1])
    [] OTHER -> p

\* the timeout of the debounced function f fires
timerFires(f) ==
  /\ timers[f].pending
  /\ timers[f].due = ms
  /\ timers' = [timers EXCEPT ![f] = NoTimer]
  /\ delivered' = Append(delivered, [fn |-> f, at |-> ms, args |-> timers[f].args,
                                     call |-> timers[f].call])
  /\ profile' = Consumed(profile, f, timers[f].args)
  /\ stats' = StatsOf(profile', stats)
  /\ UNCHANGED <<interactions, now, last, likedAt, ms, calls, startProfile>>

\* the instants after ms at which a call may be made or a timeout is due
Ahead == {t \in CallPoints : t > ms} \cup
         {timers[f].due : f \in {g \in Debounced : timers[g].pending}}

\* the clock moves on to the next such instant, no timeout being due
tickMs ==
  /\ \A f \in Debounced : timers[f].pending => timers[f].due > ms
  /\ Ahead # {}
  /\ ms' = CHOOSE t \in Ahead : \A u \in Ahead : t <= u
  /\ UNCHANGED <<interactions, now, last, likedAt, timers, calls, delivered,
                 profile, stats, startProfile>>

\* incrementInteraction and the debounced calls it makes
visitDebounced(venueId, arrivalTime) ==
  /\ ms \in CallPoints
  /\ incrementInteraction(venueId, arrivalTime)
  /\ propagation
  /\ UNCHANGED <<ms, delivered, profile, stats, startProfile>>

\* likeVenue and the debounced calls it makes
likeDebounced(venueId, timeSlot) ==
  /\ ms \in CallPoints
  /\ likeVenue(venueId, timeSlot)
  /\ propagation
  /\ UNCHANGED <<ms, delivered, profile, stats, startProfile>>

\* a record of "bar1" left by a visit at StoredAt
VisitedBefore ==
  <<[venueId |-> "bar1", count |-> 1, likes |-> 0, lastReset |-> StoredAt,
     lastInteraction |-> StoredAt, arrivalTime |-> "20:00", timestamp |-> StoredAt,
     lastLikeReset |-> StoredAt, dailyLikesUsed |-> 0, likeTimeSlot |-> UNDEFINED]>>

\* the profiles the scenario starts from: none, a new one, one that has
\* the visit of "bar1"
FreshProfile == [NoProfile EXCEPT !.loaded = TRUE, !.id = "u1"]

ProfilesAtStart ==
  {NoProfile, FreshProfile,
   awardXP(awardXP(FreshProfile, "check_in", "bar1"), "visit_new_bar", "bar1")}

InitDebounce ==
  /\ interactions \in {<<>>, VisitedBefore}
  /\ now = StoredAt + INTERACTION_COOLDOWN_HOURS * MinutesPerHour
  /\ last = Idle
  /\ likedAt = [v \in Venues |-> NoTime]
  /\ pc = "free"
  /\ tagged = NoneTagged
  /\ visitedAt = NoVisits
  /\ remote = [v \in Venues |-> NoRow]
  /\ TimersInit
  /\ profile \in ProfilesAtStart
  /\ stats = NoStats
  /\ startProfile = profile
  /\ BackendInit
  /\ SessionInit

NextDebounce ==
  \/ \E v \in Venues : visitDebounced(v, "20:00")
       /\ UNCHANGED <<pc, tagged, history, sync, backend, session>>
  \/ \E v \in Venues : likeDebounced(v, "21:00")
       /\ UNCHANGED <<pc, tagged, history, sync, backend, session>>
  \/ \E f \in Debounced : timerFires(f)
       /\ UNCHANGED <<pc, tagged, history, sync, backend, session>>
  \/ tickMs /\ UNCHANGED <<pc, tagged, history, sync, backend, session>>

SpecDebounce == InitDebounce /\ [][NextDebounce]_vars

-----------------------------------------------------------------------------

(* The idle-gap scenario: visits of "bar1" and reads of its count over the  *)
(* instants of TimePoints, with any gap between two calls; visitedAt keeps  *)
(* the instants of the accepted visits.                                     *)

\* incrementInteraction, its instant recorded in visitedAt when it is accepted
visitRecorded(venueId, arrivalTime) ==
  /\ incrementInteraction(venueId, arrivalTime)
  /\ visitedAt' = IF last'.accepted
                  THEN [visitedAt EXCEPT ![venueId] = @ \cup {now}]
                  ELSE visitedAt

InitIdle ==
  /\ interactions = <<>>
  /\ now \in TimePoints
  /\ last = Idle
  /\ likedAt = [v \in Venues |-> NoTime]
  /\ pc = "free"
  /\ tagged = NoneTagged
  /\ BeyondInit

NextIdle ==
  \/ visitRecorded("bar1", "20:00")
       /\ UNCHANGED <<pc, tagged, sync, timing, consumers, backend, session>>
  \/ getInteractionCount("bar1") /\ UNCHANGED <<pc, tagged, beyond>>
  \/ \E t \in TimePoints : Tick(t) /\ UNCHANGED <<pc, tagged, beyond>>

SpecIdle == InitIdle /\ [][NextIdle]_vars

-----------------------------------------------------------------------------

(* The createProfile mutation (src/route.ts lines 5-68): an upsert of the   *)
(* row of input.userId into the remote profiles table, followed by a read   *)
(* back of the row.  The remote store answers with the row, with an error,  *)
(* with neither, or the request raises an exception.                        *)

Usernames == {"ann", "bob"}

PhoneArgs == {"555", "", UNDEFINED}

UpsertOutcomes == {"row", "error", "no row", "exception"}

\* x || null
OrNull(x) == IF x = "" \/ x = UNDEFINED THEN NULL ELSE x

\* the row of input.userId after the upsert: the columns that the upsert
\* names take its values, the others keep theirs
UpsertRow(row, input) ==
  [row EXCEPT !.exists = TRUE, !.username = input.username,
              !.phone = OrNull(input.phone),
              !.xp = 0, !.nights_out = 0, !.bars_hit = 0, !.total_shots = 0,
              !.photos_taken = 0, !.xp_activities = <<>>,
              !.visited_bars = <<>>]

\* createProfile without its try and catch
CreateProfileResult_Unguarded(input, outcome) ==
  IF outcome = "error"
  THEN [outcome |-> outcome, userId |-> input.userId, threw |-> FALSE,
        success |-> FALSE, profileId |-> UNDEFINED,
        error |-> "error.message", message |-> "Failed to create profile"]
  ELSE IF outcome = "row"
  THEN [outcome |-> outcome, userId |-> input.userId, threw |-> FALSE,
        success |-> TRUE, profileId |-> input.userId,
        error |-> UNDEFINED, message |-> "Profile created successfully"]
  ELSE [outcome |-> outcome, userId |-> input.userId, threw |-> TRUE,
        success |-> FALSE, profileId |-> UNDEFINED,
        error |-> UNDEFINED, message |-> UNDEFINED]

\* what the mutation resolves to: with an error, the failure of line 45;
\* with a row, the success of line 55, data.id being the id upserted; with
\* neither, data.id raises a TypeError inside the try, and that or an
\* exception of the request gives the failure of the catch
CreateProfileResult(input, outcome) ==
  IF outcome = "error"
  THEN [outcome |-> outcome, userId |-> input.userId, threw |-> FALSE,
        success |-> FALSE, profileId |-> UNDEFINED,
        error |-> "error.message", message |-> "Failed to create profile"]
  ELSE IF outcome = "row"
  THEN [outcome |-> outcome, userId |-> input.userId, threw |-> FALSE,
        success |-> TRUE, profileId |-> input.userId,
        error |-> UNDEFINED, message |-> "Profile created successfully"]
  ELSE [outcome |-> outcome, userId |-> input.userId, threw |-> FALSE,
        success |-> FALSE, profileId |-> UNDEFINED,
        error |-> "Internal server error", message |-> "Failed to create profile"]

\* the mutation: the row is written when the store answers with it, is not
\* when the store answers with an error, and may or may not have been
\* written when the answer is empty or lost
createProfile(input, outcome) ==
  /\ \E written \in BOOLEAN :
       /\ outcome = "row" => written
       /\ outcome = "error" => ~written
       /\ profiles' = IF written
                      THEN [profiles EXCEPT ![input.userId] = UpsertRow(@, input)]
                      ELSE profiles
  /\ reply' = CreateProfileResult(input, outcome)
  /\ UNCHANGED <<network, inflight>>

InitCreateProfile ==
  /\ interactions = <<>>
  /\ now \in PairPoints
  /\ last = Idle
  /\ likedAt = [v \in Venues |-> NoTime]
  /\ pc = "free"
  /\ tagged = NoneTagged
  /\ BeyondInit

NextCreateProfile ==
  \E u \in UserIds, n \in Usernames, ph \in PhoneArgs, o \in UpsertOutcomes :
    /\ createProfile([userId |-> u, username |-> n, phone |-> ph], o)
    /\ UNCHANGED <<interactions, now, last, likedAt, pc, tagged,
                   history, sync, timing, consumers, session>>

SpecCreateProfile == InitCreateProfile /\ [][NextCreateProfile]_vars

-----------------------------------------------------------------------------

\* the row of "u1" after its user has played: the writes of updateProfile
\* on top of the row that the sign-up made
RowWithProgress ==
  Merged(UpsertRow(NoProfileRow,
                   [userId |-> "u1", username |-> "ann", phone |-> "555"]),
         <<[field |-> "xp", value |-> 45],
           [field |-> "nights_out", value |-> 1],
           [field |-> "bars_hit", value |-> 1],
           [field |-> "total_shots", value |-> 2],
           [field |-> "xp_activities",
            value |-> <<"check_in", "visit_new_bar", "complete_night_out">>],
           [field |-> "visited_bars", value |-> <<"bar1">>]>>)

\* createProfile called when the table already has the row of "u1"
InitUpsert ==
  /\ interactions = <<>>
  /\ now \in PairPoints
  /\ last = Idle
  /\ likedAt = [v \in Venues |-> NoTime]
  /\ pc = "free"
  /\ tagged = NoneTagged
  /\ visitedAt = NoVisits
  /\ remote = [v \in Venues |-> NoRow]
  /\ TimersInit
  /\ profile = NoProfile
  /\ stats = NoStats
  /\ startProfile = NoProfile
  /\ profiles = [u \in UserIds |-> IF u = "u1" THEN RowWithProgress
                                   ELSE NoProfileRow]
  /\ reply = NoReply
  /\ network = "up"
  /\ inflight = <<>>
  /\ SessionInit

SpecUpsert == InitUpsert /\ [][NextCreateProfile]_vars

-----------------------------------------------------------------------------


(* updateProfile of the user profile store (src/unnamed/part_001 lines      *)
(* 324-384): the updates are merged into the local profile at once, then    *)
(* the remote row of the profile is updated; an error answer or an          *)
(* exception is logged and the local changes are kept.  The request is      *)
(* answered later, in any order with the other requests in flight, and      *)
(* fails when the device does not reach the remote store at that time.      *)
(* The updates are a list of fields with their new values.                  *)

\* the number of remote writes that may wait for their answer at a time
MaxInFlight == 2

UpdateArgs ==
  {<<[field |-> "xp", value |-> 5]>>,
   <<[field |-> "bars_hit", value |-> 1]>>,
   <<[field |-> "xp", value |-> 10], [field |-> "bars_hit", value |-> 1]>>}

\* updateProfile(updates) up to its await: the local write, and the request
\* for the row of the profile that was current when it was called
updateProfile(updates) ==
  /\ Len(inflight) < MaxInFlight
  /\ IF ~profile.loaded
     THEN UNCHANGED <<profile, inflight>>
     ELSE /\ profile' = Merged(profile, updates)
          /\ inflight' = Append(inflight, [id |-> profile.id, updates |-> updates])
  /\ UNCHANGED <<stats, profiles, reply, network>>

\* the sequence s without its k-th element
Without(s, k) == SubSeq(s, 1, k - 1) \o SubSeq(s, k + 1, Len(s))

\* the answers to the remote update: done, an error, or an exception of
\* the request
UpdateOutcomes == {"ok", "error", "exception"}

\* updateProfile without its try and catch around the remote update
UpdateSettled_Unguarded(id, outcome) ==
  [NoReply EXCEPT !.outcome = outcome, !.userId = id,
                  !.threw = (outcome = "exception")]

\* how the updateProfile of the profile id settles: the error is logged and
\* the exception is caught and logged, so its promise is fulfilled
UpdateSettled(id, outcome) ==
  [NoReply EXCEPT !.outcome = outcome, !.userId = id, !.threw = FALSE]

\* updateProfile from its await on, for the k-th request in flight: the
\* request is done when the store is reached and fails otherwise, and the
\* row is written when it is done and the store has the row; the local
\* profile is left as it is and its statistics are passed on in every case
remoteAnswers(k) ==
  /\ k \in 1..Len(inflight)
  /\ \E outcome \in UpdateOutcomes :
       /\ (outcome = "ok") <=> (network = "up")
       /\ profiles' =
            IF outcome = "ok" /\ profiles[inflight[k].id].exists
            THEN [profiles EXCEPT ![inflight[k].id] = Merged(@, inflight[k].updates)]
            ELSE profiles
       /\ reply' = UpdateSettled(inflight[k].id, outcome)
  /\ inflight' = Without(inflight, k)
  /\ stats' = StatsOf(profile, stats)
  /\ UNCHANGED <<profile, network>>

\* the device loses or regains its connection
networkChanges ==
  /\ network' = IF network = "up" THEN "down" ELSE "up"
  /\ UNCHANGED <<profile, stats, profiles, reply, inflight>>

\* the row of "u1" and the profile loaded from it
RowAtStart ==
  UpsertRow(NoProfileRow, [userId |-> "u1", username |-> "ann", phone |-> "555"])

InitProfile ==
  /\ interactions = <<>>
  /\ now \in PairPoints
  /\ last = Idle
  /\ likedAt = [v \in Venues |-> NoTime]
  /\ pc = "free"
  /\ tagged = NoneTagged
  /\ visitedAt = NoVisits
  /\ remote = [v \in Venues |-> NoRow]
  /\ TimersInit
  /\ startProfile = NoProfile
  /\ profile \in {NoProfile, FreshProfile}
  /\ stats = NoStats
  /\ profiles = [u \in UserIds |-> IF u = "u1" THEN RowAtStart ELSE NoProfileRow]
  /\ reply = NoReply
  /\ network \in {"up", "down"}
  /\ inflight = <<>>
  /\ SessionInit

NextProfile ==
  \/ \E u \in UpdateArgs : updateProfile(u)
       /\ UNCHANGED <<interactions, now, last, likedAt, pc, tagged,
                      history, sync, timing, session>>
  \/ \E k \in 1..MaxInFlight : remoteAnswers(k)
       /\ UNCHANGED <<interactions, now, last, likedAt, pc, tagged,
                      history, sync, timing, session>>
  \/ networkChanges
       /\ UNCHANGED <<interactions, now, last, likedAt, pc, tagged,
                      history, sync, timing, session>>

SpecProfile == InitProfile /\ [][NextProfile]_vars

-----------------------------------------------------------------------------

(* The asynchronous handlers of the user profile store (src/unnamed/        *)
(* part_001): a handler runs without interruption up to an await, waits     *)
(* there as a frame of awaiting, and is resumed when its request is         *)
(* answered, in any order with the other frames.  updateProfile writes the  *)
(* local profile before its first await, so a handler that reads the        *)
(* profile and calls updateProfile does both in one step.  awarded keeps    *)
(* the types of the awards that awardXP has made.                           *)

\* the number of handlers that may wait at an await at a time
MaxAwaiting == 2

\* the number of awards made in a run
MaxAwards == 2

\* a handler waiting at an await: op is the handler, at the await it waits
\* at, id and updates the remote write of the updateProfile it waits for,
\* user and row what loadProfile has read so far, fid the id that its
\* loadFriends and loadFriendRequests ask for, and seen the number of
\* awards made when it read the row
NoFrame ==
  [op |-> "", at |-> "", id |-> "", updates |-> <<>>, user |-> "",
   row |-> NoProfileRow, fid |-> "", seen |-> 0]

\* the type that each counting handler awards after its own update
AwardOf ==
  [incrementBarsHit |-> "visit_new_bar", incrementPhotosTaken |-> "photo_taken",
   incrementNightsOut |-> "complete_night_out"]

\* the frames that will call awardXP when they are resumed
PendingAwards ==
  Len(SelectSeq(awaiting, LAMBDA f : f.op \in DOMAIN AwardOf /\ f.at = "update"))

\* room for one more handler, and for the award it makes
MayCall ==
  /\ Len(awaiting) < MaxAwaiting
  /\ Len(awarded) + PendingAwards < MaxAwards

\* awardXP(type, description, venueId) called from the handler op, up to
\* the await of its updateProfile: the frame it waits in, if it does
Awarding(op, type, venueId) ==
  IF profile.loaded /\ type \in DOMAIN XP_VALUES
  THEN <<[NoFrame EXCEPT !.op = op, !.at = "award", !.id = profile.id,
                         !.updates = AwardUpdates(profile, type, venueId)]>>
  ELSE <<>>

\* awardXP(type, description, venueId) called by a consumer
callAwardXP(type, venueId) ==
  /\ MayCall
  /\ profile' = awardXP(profile, type, venueId)
  /\ awaiting' = awaiting \o Awarding("awardXP", type, venueId)
  /\ awarded' = IF profile.loaded /\ type \in DOMAIN XP_VALUES
                THEN Append(awarded, type) ELSE awarded
  /\ UNCHANGED <<stats, profiles, reply, network, inflight, isLoading,
                 nightsCounted>>

\* the updates of incrementBarsHit and incrementPhotosTaken
CountUpdates(p, op) ==
  IF op = "incrementBarsHit"
  THEN <<[field |-> "bars_hit", value |-> p.bars_hit + 1]>>
  ELSE <<[field |-> "photos_taken", value |-> p.photos_taken + 1]>>

\* incrementBarsHit() and incrementPhotosTaken() up to the await of their
\* updateProfile
callIncrement(op) ==
  /\ MayCall
  /\ IF ~profile.loaded
     THEN UNCHANGED <<profile, awaiting>>
     ELSE /\ profile' = Merged(profile, CountUpdates(profile, op))
          /\ awaiting' = Append(awaiting,
               [NoFrame EXCEPT !.op = op, !.at = "update", !.id = profile.id,
                               !.updates = CountUpdates(profile, op)])
  /\ UNCHANGED <<stats, profiles, reply, network, inflight, isLoading, awarded,
                 nightsCounted>>

\* the remote table after the write of the frame f is answered: the row is
\* written when the store is reached and has the row
Written(f) ==
  IF network = "up" /\ f.id \in UserIds /\ profiles[f.id].exists
  THEN [profiles EXCEPT ![f.id] = Merged(@, f.updates)]
  ELSE profiles

\* the k-th frame, waiting for an updateProfile, is resumed: the write is
\* answered, the statistics of the current profile are passed on, and a
\* counting handler goes on to its awardXP
updateAnswered(k) ==
  /\ k \in 1..Len(awaiting)
  /\ awaiting[k].at \in {"update", "award"}
  /\ profiles' = Written(awaiting[k])
  /\ stats' = StatsOf(profile, stats)
  /\ IF awaiting[k].at = "update" /\ awaiting[k].op \in DOMAIN AwardOf
     THEN LET type == AwardOf[awaiting[k].op]
          IN  /\ profile' = awardXP(profile, type, UNDEFINED)
              /\ awaiting' = SubSeq(awaiting, 1, k - 1)
                               \o Awarding(awaiting[k].op, type, UNDEFINED)
                               \o SubSeq(awaiting, k + 1, Len(awaiting))
              /\ awarded' = IF profile.loaded THEN Append(awarded, type)
                            ELSE awarded
     ELSE /\ awaiting' = Without(awaiting, k)
          /\ UNCHANGED <<profile, awarded>>
  /\ UNCHANGED <<reply, network, inflight, isLoading, nightsCounted>>

\* the device loses or regains its connection
connectionChanges ==
  /\ network' = IF network = "up" THEN "down" ELSE "up"
  /\ UNCHANGED <<profile, stats, profiles, reply, inflight, session>>

\* the types that consumers pass to awardXP
AwardTypes == {"like_bar", "visit_new_bar"}

\* a profile loaded from the row of "u1", and the row
StoredProfile == Merged(FreshProfile, <<[field |-> "xp", value |-> 5]>>)

InitStore ==
  /\ interactions = <<>>
  /\ now \in PairPoints
  /\ last = Idle
  /\ likedAt = [v \in Venues |-> NoTime]
  /\ pc = "free"
  /\ tagged = NoneTagged
  /\ visitedAt = NoVisits
  /\ remote = [v \in Venues |-> NoRow]
  /\ TimersInit
  /\ stats = NoStats
  /\ profiles = [u \in UserIds |-> IF u = "u1"
                                   THEN [RowAtStart EXCEPT !.xp = 5]
                                   ELSE NoProfileRow]
  /\ reply = NoReply
  /\ network = "up"
  /\ inflight = <<>>
  /\ SessionInit

InitAwards ==
  /\ InitStore
  /\ profile \in {NoProfile, StoredProfile}
  /\ startProfile = profile

NextAwards ==
  \/ \E t \in AwardTypes : callAwardXP(t, "bar1")
       /\ UNCHANGED <<interactions, now, last, likedAt, pc, tagged,
                      history, sync, timing>>
  \/ \E op \in {"incrementBarsHit", "incrementPhotosTaken"} : callIncrement(op)
       /\ UNCHANGED <<interactions, now, last, likedAt, pc, tagged,
                      history, sync, timing>>
  \/ \E k \in 1..MaxAwaiting : updateAnswered(k)
       /\ UNCHANGED <<interactions, now, last, likedAt, pc, tagged,
                      history, sync, timing>>
  \/ connectionChanges
       /\ UNCHANGED <<interactions, now, last, likedAt, pc, tagged,
                      history, sync, timing>>

SpecAwards == InitAwards /\ [][NextAwards]_vars

-----------------------------------------------------------------------------


(* loadProfile of the user profile store (src/unnamed/part_001 lines        *)
(* 156-273): unless a load is in progress it sets isLoading, asks for the   *)
(* signed-in user, reads the row of the user (creating it when the table    *)
(* has none), awaits loadFriends and loadFriendRequests, awaits             *)
(* syncStatsFromDailyStats, and then replaces the local profile by the row  *)
(* it read, with the friends of the local profile.  Every way out clears    *)
(* isLoading.  The daily_stats table has no rows of the users, so           *)
(* syncStatsFromDailyStats returns after its reads.                         *)

\* the friends and the pending friend requests of the users in the remote
\* tables
RemoteFriends == [u1 |-> <<"cat">>, u2 |-> <<"dan">>]
RemoteRequests == [u1 |-> <<"eve">>, u2 |-> <<>>]

\* the user that supabase.auth.getUser() may answer with: null when the
\* store is not reached or nobody is signed in
SignedIn == IF network = "up" THEN UserIds \cup {NULL} ELSE {NULL}

\* the row that loadProfile inserts for a user without one
NewProfileRow == [NoProfileRow EXCEPT !.exists = TRUE, !.username = "guest"]

\* the profile that loadProfile sets from the row it read: the columns of
\* the row, with the friends and requests of the local profile p
FromRow(row, id, p) ==
  [loaded |-> TRUE, id |-> id, xp |-> row.xp, visited_bars |-> row.visited_bars,
   bars_hit |-> row.bars_hit, nights_out |-> row.nights_out,
   xp_activities |-> row.xp_activities, photos_taken |-> row.photos_taken,
   total_shots |-> row.total_shots,
   last_night_out_date |-> row.last_night_out_date,
   friends |-> IF p.loaded THEN p.friends ELSE <<>>,
   friend_requests |-> IF p.loaded THEN p.friend_requests ELSE <<>>]

\* loadProfile() without the test of isLoading
callLoadProfile_Unguarded ==
  /\ Len(awaiting) < MaxAwaiting
  /\ isLoading' = TRUE
  /\ awaiting' = Append(awaiting, [NoFrame EXCEPT !.op = "loadProfile",
                                                  !.at = "getUser"])
  /\ last' = Call("loadProfile", "", UNDEFINED, UNDEFINED, 0, TRUE, FALSE,
                  <<"supabase.auth.getUser">>)
  /\ UNCHANGED <<profile, stats, profiles, reply, network, inflight, awarded,
                 nightsCounted>>

\* loadProfile() up to its first await: nothing when a load is in progress
\* (isUpdating is never set), otherwise isLoading is set and the user asked
\* for; last tells whether the call went on and what it requested
callLoadProfile ==
  /\ Len(awaiting) < MaxAwaiting
  /\ IF isLoading
     THEN /\ last' = Call("loadProfile", "", UNDEFINED, UNDEFINED, 0, FALSE,
                          FALSE, <<>>)
          /\ UNCHANGED <<isLoading, awaiting>>
     ELSE /\ last' = Call("loadProfile", "", UNDEFINED, UNDEFINED, 0, TRUE,
                          FALSE, <<"supabase.auth.getUser">>)
          /\ isLoading' = TRUE
          /\ awaiting' = Append(awaiting, [NoFrame EXCEPT !.op = "loadProfile",
                                                          !.at = "getUser"])
  /\ UNCHANGED <<profile, stats, profiles, reply, network, inflight, awarded,
                 nightsCounted>>

\* loadProfile gives up: lines 170, 246 and 272
LoadFails(k) ==
  /\ isLoading' = FALSE
  /\ profile' = NoProfile
  /\ awaiting' = Without(awaiting, k)
  /\ UNCHANGED profiles

\* the frame f goes on to wait for loadFriends and loadFriendRequests, which
\* read the id of the local profile when they are called, with the row read
LoadsFriends(k, f, row, at) ==
  /\ awaiting' = [awaiting EXCEPT ![k] =
       [f EXCEPT !.at = at, !.row = row, !.seen = Len(awarded),
                 !.fid = IF profile.loaded THEN profile.id ELSE ""]]
  /\ UNCHANGED <<isLoading, profile>>

\* the local profile after the answers to loadFriends and loadFriendRequests
\* for the id fid: both return early without a profile, and leave the
\* profile as it is on an error
FriendsLoaded(p, fid) ==
  IF fid # "" /\ p.loaded /\ network = "up"
  THEN [p EXCEPT !.friends = RemoteFriends[fid],
                 !.friend_requests = RemoteRequests[fid]]
  ELSE p

\* the final set of loadProfile (lines 231-239 and 261-269)
LoadDone(k, f) ==
  /\ profile' = FromRow(f.row, f.user, profile)
  /\ isLoading' = FALSE
  /\ awaiting' = Without(awaiting, k)

\* the k-th frame, a loadProfile, is resumed at the await it waits at
loadAnswered(k) ==
  /\ k \in 1..Len(awaiting)
  /\ awaiting[k].op = "loadProfile"
  /\ LET f == awaiting[k]
     IN  CASE f.at = "getUser" ->
                \E user \in SignedIn :
                  IF user = NULL THEN LoadFails(k)
                  ELSE /\ awaiting' = [awaiting EXCEPT ![k] =
                                         [f EXCEPT !.at = "query", !.user = user]]
                       /\ UNCHANGED <<isLoading, profile, profiles>>
           [] f.at = "query" ->
                IF network # "up" THEN LoadFails(k)
                ELSE IF profiles[f.user].exists
                THEN LoadsFriends(k, f, profiles[f.user], "friends")
                       /\ UNCHANGED profiles
                ELSE /\ awaiting' = [awaiting EXCEPT ![k] = [f EXCEPT !.at = "insert"]]
                     /\ UNCHANGED <<isLoading, profile, profiles>>
           [] f.at = "insert" ->
                IF network # "up" THEN LoadFails(k)
                ELSE /\ profiles' = [profiles EXCEPT ![f.user] = NewProfileRow]
                     /\ LoadsFriends(k, f, NewProfileRow, "friends of new")
           [] f.at = "friends" ->
                /\ profile' = FriendsLoaded(profile, f.fid)
                /\ awaiting' = [awaiting EXCEPT ![k] = [f EXCEPT !.at = "syncStats"]]
                /\ UNCHANGED <<isLoading, profiles>>
           [] f.at = "friends of new" ->
                /\ LoadDone(k, f) /\ UNCHANGED profiles
           [] f.at = "syncStats" ->
                /\ LoadDone(k, f) /\ UNCHANGED profiles
  /\ UNCHANGED <<stats, reply, network, inflight, awarded, nightsCounted>>

\* the profile of "u2", which used the device before
OtherProfile ==
  [FreshProfile EXCEPT !.id = "u2", !.friends = RemoteFriends["u2"]]

InitLoad ==
  /\ InitStore
  /\ profile \in {NoProfile, StoredProfile, OtherProfile}
  /\ startProfile = profile

NextLoad ==
  \/ callLoadProfile
       /\ UNCHANGED <<interactions, now, likedAt, pc, tagged,
                      history, sync, timing>>
  \/ \E k \in 1..MaxAwaiting : loadAnswered(k)
       /\ UNCHANGED <<interactions, now, last, likedAt, pc, tagged,
                      history, sync, timing>>
  \/ callAwardXP("like_bar", "bar1")
       /\ UNCHANGED <<interactions, now, last, likedAt, pc, tagged,
                      history, sync, timing>>
  \/ \E k \in 1..MaxAwaiting : updateAnswered(k)
       /\ UNCHANGED <<interactions, now, last, likedAt, pc, tagged,
                      history, sync, timing>>
  \/ connectionChanges
       /\ UNCHANGED <<interactions, now, last, likedAt, pc, tagged,
                      history, sync, timing>>

SpecLoad == InitLoad /\ [][NextLoad]_vars

-----------------------------------------------------------------------------


(* Nights out (src/unnamed/part_001 lines 398-415 and 526-532), with the    *)
(* loads of the profile and the restarts of the app in between, the        *)
(* remote store being reached throughout.  An instant written by            *)
(* toISOString and read back by new Date is the same instant, and           *)
(* isSameDay compares its local year, month and day.                        *)

\* the instants after the start at which the night-out scenario lets calls
\* happen: later the same day, and the day after
NightPoints == {23 * MinutesPerHour, MinutesPerDay + MinutesPerHour}

\* the number of nights out counted in a run
MaxNights == 2

\* the local calendar day of the instant t
LocalDay(t) == t \div MinutesPerDay

\* isSameDay(date1, date2): the parts of an Invalid Date are NaN and equal
\* nothing
isSameDay(date1, date2) ==
  IsValidDate(date1) /\ IsValidDate(date2) /\ LocalDay(date1) = LocalDay(date2)

\* canIncrementNightsOut(): true without a profile
canIncrementNightsOut(p) ==
  IF ~p.loaded THEN TRUE
  ELSE p.last_night_out_date = NoTime \/ ~isSameDay(p.last_night_out_date, now)

\* the updates of incrementNightsOut
NightUpdates(p) ==
  <<[field |-> "nights_out", value |-> p.nights_out + 1],
    [field |-> "last_night_out_date", value |-> now]>>

\* incrementNightsOut() up to the await of its updateProfile: nothing
\* without a profile or when the profile has the date of today
callIncrementNightsOut ==
  /\ MayCall
  /\ Len(nightsCounted) < MaxNights
  /\ IF profile.loaded /\ canIncrementNightsOut(profile)
     THEN /\ profile' = Merged(profile, NightUpdates(profile))
          /\ awaiting' = Append(awaiting,
               [NoFrame EXCEPT !.op = "incrementNightsOut", !.at = "update",
                               !.id = profile.id,
                               !.updates = NightUpdates(profile)])
          /\ nightsCounted' = Append(nightsCounted, now)
     ELSE UNCHANGED <<profile, awaiting, nightsCounted>>
  /\ UNCHANGED <<stats, profiles, reply, network, inflight, isLoading, awarded>>

\* the profile that partialize keeps in the storage of the device
Persisted(p) ==
  IF ~p.loaded THEN p
  ELSE [p EXCEPT !.last_night_out_date = NoTime, !.friends = <<>>,
                 !.friend_requests = <<>>]

\* the app is closed and opened again: the store starts from its initial
\* state with the persisted profile, and the handlers that waited are gone
restarts ==
  /\ profile' = Persisted(profile)
  /\ isLoading' = FALSE
  /\ awaiting' = <<>>
  /\ UNCHANGED <<stats, profiles, reply, network, inflight, awarded,
                 nightsCounted>>

InitNights ==
  /\ InitStore
  /\ now = 4 * MinutesPerHour
  /\ profile \in {NoProfile, StoredProfile}
  /\ startProfile = profile

NextNights ==
  \/ callIncrementNightsOut
       /\ UNCHANGED <<interactions, now, last, likedAt, pc, tagged,
                      history, sync, timing>>
  \/ \E k \in 1..MaxAwaiting : updateAnswered(k)
       /\ UNCHANGED <<interactions, now, last, likedAt, pc, tagged,
                      history, sync, timing>>
  \/ callLoadProfile
       /\ UNCHANGED <<interactions, now, likedAt, pc, tagged,
                      history, sync, timing>>
  \/ \E k \in 1..MaxAwaiting : loadAnswered(k)
       /\ UNCHANGED <<interactions, now, last, likedAt, pc, tagged,
                      history, sync, timing>>
  \/ restarts
       /\ UNCHANGED <<interactions, now, last, likedAt, pc, tagged,
                      history, sync, timing>>
  \/ \E t \in NightPoints : Tick(t)
       /\ UNCHANGED <<pc, tagged, beyond>>

SpecNights == InitNights /\ [][NextNights]_vars

-----------------------------------------------------------------------------


(* Properties *)

\* the record of venue v in the ledger ints (v has one)
RecordOf(ints, v) == ints[Find(ints, v)]

HasRecord(ints, v) == Find(ints, v) # 0

\* the most recent 04:59 and 05:00 at or before the instant t
LastLikeBoundary(t) ==
  t - ((t - (LIKE_RESET_HOUR * MinutesPerHour + LIKE_RESET_MINUTE)) % MinutesPerDay)

LastVisitBoundary(t) == t - ((t - RESET_HOUR * MinutesPerHour) % MinutesPerDay)

\* C1: every record has 0 <= dailyLikesUsed <= DAILY_LIKE_LIMIT in every
\* reachable state.
C1_DailyLikesBounded ==
  \A k \in 1..Len(interactions) :
    /\ interactions[k].dailyLikesUsed >= 0
    /\ interactions[k].dailyLikesUsed <= DAILY_LIKE_LIMIT

\* a likeVenue with valid arguments was turned down on a used-up quota
C1_Witness ==
  /\ last.op = "likeVenue" /\ last.venueId # "" /\ last.arg # ""
  /\ ~last.accepted
  /\ HasRecord(interactions, last.venueId)
  /\ RecordOf(interactions, last.venueId).dailyLikesUsed = DAILY_LIKE_LIMIT

\* C5: a reset pass zeroes dailyLikesUsed of exactly the records whose
\* lastLikeReset predates the most recent 04:59 boundary (today's, or
\* yesterday's when the pass runs before today's 04:59), and it moves their
\* lastLikeReset to now, so that no later pass zeroes it again before the next
\* boundary; it leaves dailyLikesUsed of every other record as it was.
C5_LikeResetOncePerBoundary ==
  [][last'.op = "resetInteractionsIfNeeded" =>
       /\ Len(interactions') = Len(interactions)
       /\ \A k \in 1..Len(interactions) :
            IF interactions[k].lastLikeReset < LastLikeBoundary(now)
            THEN /\ interactions'[k].dailyLikesUsed = 0
                 /\ interactions'[k].lastLikeReset = now
                 /\ interactions'[k].lastLikeReset >= LastLikeBoundary(now)
            ELSE /\ interactions'[k].dailyLikesUsed = interactions[k].dailyLikesUsed
                 /\ interactions'[k].lastLikeReset = interactions[k].lastLikeReset]_vars

\* a pass run before today's 04:59 has just reset the quota of a liked venue
C5_Witness ==
  /\ last.op = "resetInteractionsIfNeeded"
  /\ now < SetHours(now, LIKE_RESET_HOUR, LIKE_RESET_MINUTE)
  /\ \E k \in 1..Len(interactions) :
       /\ interactions[k].likes > 0
       /\ interactions[k].dailyLikesUsed = 0
       /\ interactions[k].lastLikeReset = now
       /\ interactions[k].timestamp < now

\* C6: resetInteractionsIfNeeded is idempotent: at every reachable ledger and
\* clock value, a second pass changes nothing that the first pass produced.
C6_ResetIdempotent ==
  ResetPass(ResetPass(interactions)) = ResetPass(interactions)

\* a reset pass has just zeroed the visit count of a visited venue
C6_Witness ==
  /\ last.op = "resetInteractionsIfNeeded"
  /\ \E k \in 1..Len(interactions) :
       /\ interactions[k].lastReset = now
       /\ interactions[k].lastInteraction # NoTime
       /\ interactions[k].lastInteraction < now
       /\ interactions[k].count = 0

CooldownMinutes == INTERACTION_COOLDOWN_HOURS * MinutesPerHour

\* the step is a call of incrementInteraction for the venue v
IsVisitCall(v) == last'.op = "incrementInteraction" /\ last'.venueId = v

\* the step is a call of likeVenue for the venue v
IsLikeCall(v) == last'.op = "likeVenue" /\ last'.venueId = v

\* a visit is accepted iff the venue has no lastInteraction or
\* now >= lastInteraction + 2h
VisitAcceptedIffCooldownElapsed(v) ==
  last'.accepted <=>
    \/ ~HasRecord(interactions, v)
    \/ RecordOf(interactions, v).lastInteraction = NoTime
    \/ now >= RecordOf(interactions, v).lastInteraction + CooldownMinutes

IsInvalidCall ==
  \/ last'.op = "incrementInteraction" /\ last'.venueId = ""
  \/ last'.op = "likeVenue" /\ (last'.venueId = "" \/ last'.arg = "")

NextLikeBoundary(t) == LastLikeBoundary(t) + MinutesPerDay

\* C3: once likeVenue has been accepted for a venue at T, every likeVenue for
\* that venue made before the next 04:59 boundary after T is rejected and
\* leaves likes and dailyLikesUsed unchanged, and a likeVenue made at or after
\* that boundary is accepted when none was accepted since T.
C3_LikeQuota ==
  [][\A v \in Venues :
       (IsLikeCall(v) /\ last'.arg # "" /\ likedAt[v] # NoTime) =>
         IF now < NextLikeBoundary(likedAt[v])
         THEN /\ ~last'.accepted
              /\ RecordOf(interactions', v).likes = RecordOf(interactions, v).likes
              /\ RecordOf(interactions', v).dailyLikesUsed =
                   RecordOf(interactions, v).dailyLikesUsed
         ELSE /\ last'.accepted
              /\ RecordOf(interactions', v).likes = RecordOf(interactions, v).likes + 1]_vars

\* a like rejected before the boundary, on the day after the accepted like
C3_Witness ==
  /\ last.op = "likeVenue" /\ last.venueId # "" /\ last.arg # ""
  /\ ~last.accepted
  /\ now < SetHours(now, LIKE_RESET_HOUR, LIKE_RESET_MINUTE)
  /\ RecordOf(interactions, last.venueId).lastLikeReset < SetHours(now, 0, 0)

\* the instant T0 at which the end-to-end scenario started
E2EStart ==
  IF pc \in {"visit1", "count1", "wait2"} THEN now
  ELSE IF pc \in {"visit2", "count2", "wait3"} THEN now - SecondVisitAfter
  ELSE now - ThirdVisitAfter

\* a 05:00 boundary falls after the start of the scenario and at or before now
E2EBoundaryCrossed == LastVisitBoundary(now) > E2EStart

\* C4 as stated: for any start time T0, the first visit makes the count 1, the
\* visit at T0 + 30min is rejected and the count remains 1, the visit at
\* T0 + 2h1min is accepted and the count becomes 2.
C4_Original ==
  /\ pc = "wait2" => last.num = 1
  /\ pc = "count2" => ~last.accepted
  /\ pc = "wait3" => last.num = 1
  /\ pc = "count3" => last.accepted
  /\ pc = "done" => last.num = 2

\* C4 as amended: for any start time T0, the first visit makes the count 1, the
\* visit at T0 + 30min is rejected and the visit at T0 + 2h1min is accepted;
\* when no 05:00 boundary falls within (T0, T0 + 30min] the count read at
\* T0 + 30min remains 1, else it is 0, and when none falls within
\* (T0, T0 + 2h1min] the count read at T0 + 2h1min is 2, else it is 1.
C4_EndToEnd ==
  /\ pc = "count1" => last.accepted /\ last.isNewBar
  /\ pc = "wait2" => last.num = 1
  /\ pc = "count2" => ~last.accepted
  /\ pc = "wait3" => last.num = (IF E2EBoundaryCrossed THEN 0 ELSE 1)
  /\ pc = "count3" => last.accepted
  /\ pc = "done" => last.num = (IF E2EBoundaryCrossed THEN 1 ELSE 2)

\* the scenario has ended with the count at 2
C4_Witness == pc = "done" /\ last.op = "getInteractionCount" /\ last.num = 2

\* the records of the venues other than v are the same in ints1 and ints2
OthersSame(ints1, ints2, v) ==
  \A w \in Venues \ {v} :
    /\ HasRecord(ints1, w) <=> HasRecord(ints2, w)
    /\ HasRecord(ints1, w) => RecordOf(ints1, w) = RecordOf(ints2, w)

\* an accepted incrementInteraction(v, last.arg) took the ledger pre to post
VisitEffect(pre, post, v, arg) ==
  /\ HasRecord(post, v)
  /\ LET r == RecordOf(post, v)
     IN  /\ r.count = (IF HasRecord(pre, v) THEN RecordOf(pre, v).count ELSE 0) + 1
         /\ r.lastInteraction = now
         /\ r.timestamp = now
         /\ r.arrivalTime =
              (IF arg # UNDEFINED /\ arg # "" THEN arg
               ELSE IF HasRecord(pre, v) THEN RecordOf(pre, v).arrivalTime
               ELSE UNDEFINED)
  /\ OthersSame(pre, post, v)

\* C9 as stated: an accepted incrementInteraction creates the record if absent,
\* increases its visit count by exactly 1, sets lastInteraction and timestamp
\* to now, sets arrivalTime to the slot supplied or keeps the prior one, and
\* changes no other venue's record.
C9_Original ==
  [][\A v \in Venues :
       (IsVisitCall(v) /\ last'.accepted) =>
         VisitEffect(interactions, interactions', v, last'.arg)]_vars

\* C9 as amended: an accepted incrementInteraction first applies the pending
\* window resets to every record, and relative to the ledger so reset it
\* creates the record if absent, increases its visit count by exactly 1, sets
\* lastInteraction and timestamp to now, sets arrivalTime to the slot supplied
\* or keeps the prior one, and changes no other venue's record.
C9_AcceptedVisit ==
  [][\A v \in Venues :
       (IsVisitCall(v) /\ last'.accepted) =>
         /\ VisitEffect(ResetPass(interactions), interactions', v, last'.arg)
         /\ Len(interactions') =
              Len(interactions) + (IF HasRecord(interactions, v) THEN 0 ELSE 1)]_vars

\* a visit without a slot was accepted and kept the slot of the visit before
C9_Witness ==
  /\ last.op = "incrementInteraction" /\ last.accepted /\ last.arg = UNDEFINED
  /\ LET r == RecordOf(interactions, last.venueId)
     IN  /\ r.arrivalTime = "20:00"
         /\ r.count = 2
         /\ r.lastInteraction = now
  /\ Len(interactions) = 2

\* an accepted likeVenue(v, timeSlot) took the ledger pre to post
LikeEffect(pre, post, v, timeSlot) ==
  /\ HasRecord(post, v)
  /\ LET r == RecordOf(post, v)
     IN  /\ r.likes = (IF HasRecord(pre, v) THEN RecordOf(pre, v).likes ELSE 0) + 1
         /\ r.dailyLikesUsed =
              (IF HasRecord(pre, v) THEN RecordOf(pre, v).dailyLikesUsed ELSE 0) + 1
         /\ r.likeTimeSlot = timeSlot
         /\ r.timestamp = now
         /\ r.count = (IF HasRecord(pre, v) THEN RecordOf(pre, v).count ELSE 0)
         /\ r.lastInteraction =
              (IF HasRecord(pre, v) THEN RecordOf(pre, v).lastInteraction ELSE NoTime)
         /\ r.arrivalTime =
              (IF HasRecord(pre, v) THEN RecordOf(pre, v).arrivalTime ELSE UNDEFINED)
  /\ OthersSame(pre, post, v)

\* dailyLikesUsed of the record of v counted from 0 if its like window elapsed
WindowedLedger(ints, v) ==
  [k \in 1..Len(ints) |->
     IF ints[k].venueId = v /\ ints[k].lastLikeReset < LastLikeBoundary(now)
     THEN [ints[k] EXCEPT !.dailyLikesUsed = 0]
     ELSE ints[k]]

\* C10 as stated: an accepted likeVenue creates the record if absent, increases
\* likes by 1 and dailyLikesUsed by 1 (counted from 0 if the like window has
\* elapsed), sets likeTimeSlot and timestamp, and leaves the record's visit
\* count, lastInteraction and arrivalTime and every other record unchanged.
C10_Original ==
  [][\A v \in Venues :
       (IsLikeCall(v) /\ last'.accepted) =>
         LikeEffect(WindowedLedger(interactions, v), interactions', v, last'.arg)]_vars

\* C10 as amended: an accepted likeVenue first applies the pending window
\* resets to every record, and relative to the ledger so reset it creates the
\* record if absent, increases likes by 1 and dailyLikesUsed by 1, sets
\* likeTimeSlot and timestamp, and leaves the record's visit count,
\* lastInteraction and arrivalTime and every other record unchanged.
C10_AcceptedLike ==
  [][\A v \in Venues :
       (IsLikeCall(v) /\ last'.accepted) =>
         /\ LikeEffect(ResetPass(interactions), interactions', v, last'.arg)
         /\ RecordOf(interactions', v).dailyLikesUsed = 1
         /\ Len(interactions') =
              Len(interactions) + (IF HasRecord(interactions, v) THEN 0 ELSE 1)]_vars

\* a second like of a visited venue was accepted after the 04:59 boundary
C10_Witness ==
  /\ last.op = "likeVenue" /\ last.accepted
  /\ LET r == RecordOf(interactions, last.venueId)
     IN  /\ r.likes = 2
         /\ r.dailyLikesUsed = 1
         /\ r.lastInteraction # NoTime
  /\ Len(interactions) = 2


\* C11: the cumulative like total of every record, which getLikeCount returns,
\* never decreases in any step: no visit-window reset, like-window reset,
\* rejected call or query lowers it, and no record is dropped.
C11_LikesNeverDecrease ==
  [][/\ Len(interactions') >= Len(interactions)
     /\ \A k \in 1..Len(interactions) :
          /\ interactions'[k].venueId = interactions[k].venueId
          /\ interactions'[k].likes >= interactions[k].likes
     /\ \A v \in Venues \cup {""} :
          LikeCountOf(interactions', v) >= LikeCountOf(interactions, v)]_vars

\* one reset pass has just reset both windows of a liked venue: its quota is
\* back at 0 and its like total is still there
C11_Witness ==
  /\ last.op = "resetInteractionsIfNeeded"
  /\ \E k \in 1..Len(interactions) :
       /\ interactions[k].likes > 0
       /\ interactions[k].dailyLikesUsed = 0
       /\ interactions[k].likeTimeSlot = UNDEFINED
       /\ interactions[k].lastLikeReset = now
       /\ interactions[k].lastReset = now
       /\ interactions[k].timestamp < now



\* the venue identifiers that have a record in the ledger ints
IdsOf(ints) == {ints[k].venueId : k \in 1..Len(ints)}

\* C12: starting from the empty ledger, every step of incrementInteraction,
\* likeVenue and resetInteractionsIfNeeded keeps every record in its place
\* under its venue identifier, adds a record exactly for the venue of an
\* accepted call that had none, and leaves one record per identifier: the
\* ledger holds exactly one record per venue that has had an accepted
\* interaction, and no record is ever removed.
C12_KeyUniqueness ==
  [][/\ Len(interactions') >= Len(interactions)
     /\ \A k \in 1..Len(interactions) :
          interactions'[k].venueId = interactions[k].venueId
     /\ IdsOf(interactions') =
          IdsOf(interactions) \cup (IF last'.accepted THEN {last'.venueId} ELSE {})
     /\ Cardinality(IdsOf(interactions')) = Len(interactions')]_vars

\* a like accepted for a venue that a visit had given its record, beside the
\* record of the other venue: still one record each
C12_Witness ==
  /\ last.op = "likeVenue" /\ last.accepted
  /\ IdsOf(interactions) = Venues
  /\ Len(interactions) = Cardinality(Venues)
  /\ LET r == RecordOf(interactions, last.venueId)
     IN  /\ r.count > 0
         /\ r.likes = 1
         /\ r.lastInteraction < now



\* an arrivalTime that is neither undefined nor the empty string
IsSlot(s) == s # UNDEFINED /\ s # ""

\* C13: in every reachable state a record's arrivalTime is non-empty only if
\* its visit count is greater than 0: a like never sets it, and the
\* visit-window reset clears it in the step that zeroes the count.
C13_ArrivalTimeOnlyWithVisits ==
  \A k \in 1..Len(interactions) :
    IsSlot(interactions[k].arrivalTime) => interactions[k].count > 0

\* a like was accepted for a venue whose visits, made with a slot, a
\* visit-window reset has cleared: the record has neither count nor slot
C13_Witness ==
  /\ last.op = "likeVenue" /\ last.accepted
  /\ LET r == RecordOf(interactions, last.venueId)
     IN  /\ r.lastInteraction # NoTime
         /\ r.lastReset > r.lastInteraction
         /\ r.count = 0
         /\ r.arrivalTime = UNDEFINED
         /\ r.likeTimeSlot = last.arg



\* C14: with the clock never going back, no step lowers the lastReset or the
\* lastLikeReset of a record: both window starts are monotonically
\* non-decreasing over any sequence of operations.
C14_WindowStartsMonotone ==
  [][/\ now' >= now
     /\ \A k \in 1..Len(interactions) :
          /\ k <= Len(interactions')
          /\ interactions'[k].lastReset >= interactions[k].lastReset
          /\ interactions'[k].lastLikeReset >= interactions[k].lastLikeReset]_vars

\* a pass at 05:00 has moved lastReset of a record whose lastLikeReset a pass
\* at 04:59 had moved before
C14_Witness ==
  /\ last.op = "resetInteractionsIfNeeded"
  /\ \E k \in 1..Len(interactions) :
       /\ interactions[k].lastReset = now
       /\ interactions[k].lastLikeReset = now - 1
       /\ interactions[k].timestamp < interactions[k].lastLikeReset



\* 05:00:00 of the local day that the instant t lies in
VisitBoundaryOfDay(t) ==
  (t \div MinutesPerDay) * MinutesPerDay + RESET_HOUR * MinutesPerHour

\* C20: for every pair of valid timestamps, shouldReset(lastReset) evaluated at
\* now is true iff now is at or after today's 05:00 and lastReset is strictly
\* before that boundary; it is false whenever now is before today's 05:00.
C20_ShouldResetIffBoundaryBetween ==
  last.op = "shouldReset" =>
    /\ last.ret = "true" <=>
         /\ now >= VisitBoundaryOfDay(now)
         /\ last.num < VisitBoundaryOfDay(now)
    /\ last.ret \in {"true", "false"}
    /\ now < VisitBoundaryOfDay(now) => last.ret = "false"

\* shouldReset was true at 05:00 sharp for a lastReset one minute before it
C20_Witness ==
  /\ last.op = "shouldReset" /\ last.ret = "true"
  /\ now = VisitBoundaryOfDay(now)
  /\ last.num = now - 1



\* the venue identifiers in ascending order of their strings
VenueOrder == <<"bar1", "bar2">>

VenueRank(v) == CHOOSE n \in 1..Len(VenueOrder) : VenueOrder[n] = v

\* C16 as stated: getMostPopularVenues returns the venues of the ledger, at
\* most TopVenues of them, by likes descending, and those with equal likes by
\* venue identifier ascending, whatever order the records were inserted in.
C16_Original ==
  last.op = "getMostPopularVenues" =>
    /\ Len(last.rows) =
         (IF Len(interactions) < TopVenues THEN Len(interactions) ELSE TopVenues)
    /\ {last.rows[n].venueId : n \in 1..Len(last.rows)} = IdsOf(interactions)
    /\ \A m, n \in 1..Len(last.rows) :
         m < n =>
           /\ last.rows[m].likes >= last.rows[n].likes
           /\ last.rows[m].likes = last.rows[n].likes =>
                VenueRank(last.rows[m].venueId) < VenueRank(last.rows[n].venueId)



\* the visit count of venue v in the ledger ints, 0 without a record
VisitCountIn(ints, v) == IF HasRecord(ints, v) THEN RecordOf(ints, v).count ELSE 0

\* C17 as stated: getInteractionCount, getTotalBarsVisited, getTimeSlotData
\* and getPopularArrivalTime each return, at any ledger and clock value, what
\* they would return had resetInteractionsIfNeeded been called just before.
C17_Original ==
  [][/\ last'.op = "getInteractionCount" =>
          last'.num = VisitCountIn(ResetPass(interactions), last'.venueId)
     /\ last'.op = "getTotalBarsVisited" =>
          last'.num = TotalBarsVisitedOf(ResetPass(interactions))
     /\ last'.op = "getTimeSlotData" =>
          last'.rows = TimeSlotDataOf(ResetPass(interactions), last'.venueId)
     /\ last'.op = "getPopularArrivalTime" =>
          last'.ret = PopularArrivalTimeOf(ResetPass(interactions), last'.venueId)]_vars



\* the step is a call of canInteract or of canLikeVenue
IsPredicateCall == last'.op \in {"canInteract", "canLikeVenue"}

\* C19 as stated: at every ledger and clock value, the ledger after a call of
\* canInteract or canLikeVenue is the one resetInteractionsIfNeeded alone
\* would produce at that instant, and no side effect is scheduled.
C19_Original ==
  [][IsPredicateCall =>
       /\ interactions' = ResetPass(interactions)
       /\ last'.effects = <<>>]_vars

\* C19 as amended: a call of canInteract or canLikeVenue with a non-empty
\* venueId leaves the ledger that resetInteractionsIfNeeded alone would
\* produce at that instant; with an empty venueId it returns false before the
\* reset pass and leaves the ledger as it was, pending resets included; in
\* both cases it returns a boolean and schedules no side effect.
C19_PredicatesFrame ==
  [][IsPredicateCall =>
       /\ interactions' =
            (IF last'.venueId = "" THEN interactions ELSE ResetPass(interactions))
       /\ last'.venueId = "" => last'.ret = "false"
       /\ last'.ret \in {"true", "false"}
       /\ ~last'.accepted
       /\ last'.effects = <<>>]_vars

\* canLikeVenue has answered true for a liked venue after its reset pass put
\* the used-up quota of that venue back to 0
C19_Witness ==
  /\ last.op = "canLikeVenue" /\ last.venueId # "" /\ last.ret = "true"
  /\ HasRecord(interactions, last.venueId)
  /\ LET r == RecordOf(interactions, last.venueId)
     IN  /\ r.likes > 0
         /\ r.dailyLikesUsed = 0
         /\ r.lastLikeReset = now
         /\ likedAt[last.venueId] < now



\* C18 as stated: for a record whose lastInteraction is a non-empty string that
\* does not parse as a date, canInteract returns true at any time; and for a
\* lastReset or lastLikeReset that does not parse, the window checks report
\* that the window has not elapsed.
C18_Original ==
  [][/\ (/\ last'.op = "canInteract"
         /\ HasRecord(interactions, last'.venueId)
         /\ RecordOf(interactions, last'.venueId).lastInteraction = InvalidDate)
          => last'.ret = "true"
     /\ ~shouldReset(InvalidDate)
     /\ ~shouldResetLikes(InvalidDate)]_vars



\* the largest number of visits that the scenario has tagged with one slot
MostTagged == CHOOSE c \in {tagged[s] : s \in SlotArgs} : \A s \in SlotArgs : tagged[s] <= c

\* the slots that share it
TiedSlots == {s \in SlotArgs : tagged[s] = MostTagged}

\* C15 as stated: on a ledger produced by incrementInteraction calls, when the
\* venue has visits in several slots and two or more slots share the largest
\* number of visits (3 tagged "21:00" and 3 tagged "22:00"),
\* getPopularArrivalTime returns the tied slots sorted and joined with "/"
\* ("21:00/22:00").
C15_Original ==
  (/\ last.op = "getPopularArrivalTime"
   /\ MostTagged > 0
   /\ Cardinality(TiedSlots) >= 2)
    => last.ret = JoinSlash(SortedSlots(TiedSlots))



\* the number of times the function named f occurs in the list of calls
Times(names, f) == Len(SelectSeq(names, LAMBDA c : c = f))

\* C21: every accepted ledger mutation, an accepted incrementInteraction or
\* an accepted likeVenue, hands its venue to syncToSupabase exactly once, and
\* a rejected call hands over nothing.
C21_Original ==
  last.op \in {"incrementInteraction", "likeVenue"} =>
    Times(last.effects, "syncToSupabase") = (IF last.accepted THEN 1 ELSE 0)



\* the visit count of the venue v in the ledger ints, 0 without a record
CountOf(ints, v) == IF HasRecord(ints, v) THEN RecordOf(ints, v).count ELSE 0

C23_Original ==
  [][\A v \in Venues :
       (/\ last'.op = "syncToSupabase" /\ last'.venueId = v
        /\ HasRecord(interactions, v)
        /\ remote[v].timestamp > RecordOf(interactions, v).timestamp) =>
         /\ RecordOf(interactions', v).count = remote[v].count
         /\ RecordOf(interactions', v).likes = remote[v].likes
         /\ RecordOf(interactions', v).timestamp = remote[v].timestamp]_vars

LaterCalls(i) == {j \in (i + 1)..Len(calls) : calls[j].fn = calls[i].fn}

\* the instant one wait after the i-th call
DueOf(i) == calls[i].at + Wait[calls[i].fn]

\* a later call of the same debounced function came less than the wait after
\* the i-th call
Superseded(i) == \E j \in LaterCalls(i) : calls[j].at < DueOf(i)

\* the deliveries made for the i-th call
DeliveriesOf(i) == {k \in 1..Len(delivered) : delivered[k].call = i}

\* C25: trailing-edge debounce: each debounced function restarts its one
\* timer on every call.  A call followed less than the wait later by another
\* call of the same function is never delivered; a call that no call of the
\* same function follows within the wait is delivered exactly once, one wait
\* after it was made and with its own arguments.  So a burst of calls each
\* less than the wait apart has exactly one delivery, that of its last call.
C25_TrailingEdgeDebounce ==
  \A i \in 1..Len(calls) :
    /\ Cardinality(DeliveriesOf(i)) <= 1
    /\ \A k \in DeliveriesOf(i) :
         /\ delivered[k].fn = calls[i].fn
         /\ delivered[k].at = DueOf(i)
         /\ delivered[k].args = calls[i].args
    /\ Superseded(i) => DeliveriesOf(i) = {}
    /\ ((\A j \in LaterCalls(i) : calls[j].at > DueOf(i)) /\ ms > DueOf(i)) =>
         Cardinality(DeliveriesOf(i)) = 1
    /\ (LaterCalls(i) = {} /\ DeliveriesOf(i) = {}) =>
         /\ timers[calls[i].fn].pending
         /\ timers[calls[i].fn].due = DueOf(i)
         /\ timers[calls[i].fn].args = calls[i].args

\* visits of "bar1" at 0 ms and of "bar2" at 100 ms: debouncedAwardXP was
\* delivered once, at 400 ms, for "bar2"
C25_Witness ==
  /\ Len(calls) >= 3
  /\ calls[1].fn = "debouncedAwardXP" /\ calls[1].at = 0 /\ calls[1].args[1] = "bar1"
  /\ calls[3].fn = "debouncedAwardXP" /\ calls[3].at = 100 /\ calls[3].args[1] = "bar2"
  /\ DeliveriesOf(1) = {}
  /\ \E k \in DeliveriesOf(3) : delivered[k].at = 400 /\ delivered[k].args[1] = "bar2"
  /\ \A f \in Debounced : ~timers[f].pending

\* the profile after the wrapped functions are called for the calls from the
\* k-th on, one after the other: what calls spaced further apart than the
\* waits deliver
RECURSIVE Spaced(_, _)
Spaced(p, k) ==
  IF k > Len(calls) THEN p
  ELSE Spaced(Consumed(p, calls[k].fn, calls[k].args), k + 1)

\* C26: consumers converge regardless of coalescing: once every timer has
\* fired, the profile (xp, visited_bars, bars_hit) and the statistics passed
\* to the achievement recomputation are those that the same accepted visits
\* and likes produce when they are spaced further apart than the waits.
C26_Original ==
  ((\A f \in Debounced : ~timers[f].pending) /\ calls # <<>>) =>
    /\ profile = Spaced(startProfile, 1)
    /\ stats = StatsOf(Spaced(startProfile, 1), NoStats)



\* C27: every accepted incrementInteraction schedules debouncedAwardXP and
\* debouncedUpdateAchievements exactly once each, every accepted likeVenue
\* schedules debouncedAwardLikeXP and debouncedUpdateAchievements exactly
\* once each, and a rejected call schedules nothing; the isNewBar passed to
\* debouncedAwardXP is true iff the venue had no record before the call.
C27_EmitsOncePerAcceptedCall ==
  [][\A v \in Venues :
       /\ IsVisitCall(v) =>
            IF last'.accepted
            THEN /\ Times(last'.effects, "debouncedAwardXP") = 1
                 /\ Times(last'.effects, "debouncedUpdateAchievements") = 1
                 /\ Times(last'.effects, "debouncedAwardLikeXP") = 0
                 /\ last'.isNewBar <=> ~HasRecord(interactions, v)
            ELSE last'.effects = <<>>
       /\ IsLikeCall(v) =>
            IF last'.accepted
            THEN /\ Times(last'.effects, "debouncedAwardLikeXP") = 1
                 /\ Times(last'.effects, "debouncedUpdateAchievements") = 1
                 /\ Times(last'.effects, "debouncedAwardXP") = 0
            ELSE last'.effects = <<>>]_vars

\* the first visit of a venue whose record a like had created was accepted
\* and scheduled its event once, with isNewBar false
C27_Witness ==
  /\ last.op = "incrementInteraction" /\ last.accepted /\ ~last.isNewBar
  /\ Times(last.effects, "debouncedAwardXP") = 1
  /\ Times(last.effects, "debouncedUpdateAchievements") = 1
  /\ RecordOf(interactions, last.venueId).count = 1
  /\ RecordOf(interactions, last.venueId).likes = 1



\* the accepted visits of the venue v made at or after the most recent 05:00
\* boundary at or before now
VisitsSinceBoundary(v) == {t \in visitedAt[v] : t >= LastVisitBoundary(now)}

\* C30: getInteractionCount(e) evaluated at now never counts a visit accepted
\* before the most recent 05:00 boundary at or before now (yesterday's 05:00
\* when now is earlier than today's 05:00), whatever the gaps between calls:
\* the count it returns is at most the number of visits accepted since that
\* boundary.
C30_Original ==
  (last.op = "getInteractionCount" /\ last.venueId = "bar1") =>
    last.num <= Cardinality(VisitsSinceBoundary("bar1"))



\* C29: the createProfile mutation never throws: when the upsert answers
\* with an error, with no row, or raises an exception, it resolves to
\* success = false with a message and no profileId, and it resolves to
\* success = true, with the id of the upserted row as profileId, only when
\* the upsert answered with a row and no error.
C29_CreateProfileNeverThrows ==
  reply.outcome # "none" =>
    /\ ~reply.threw
    /\ reply.success <=> reply.outcome = "row"
    /\ reply.success =>
         /\ reply.profileId = reply.userId
         /\ profiles[reply.userId].exists
    /\ ~reply.success =>
         /\ reply.message = "Failed to create profile"
         /\ reply.error # UNDEFINED
         /\ reply.profileId = UNDEFINED

\* the upsert answered with neither a row nor an error although the row had
\* been written: the mutation resolved to a failure
C29_Witness ==
  /\ reply.outcome = "no row"
  /\ ~reply.success /\ ~reply.threw
  /\ reply.error = "Internal server error"
  /\ profiles[reply.userId].exists
  /\ profiles[reply.userId].phone = NULL



\* the remote row of the loaded profile has the values of the local profile
RemoteMatchesLocal ==
  /\ profiles[profile.id].xp = profile.xp
  /\ profiles[profile.id].bars_hit = profile.bars_hit
  /\ profiles[profile.id].visited_bars = profile.visited_bars

\* C28: offline profile writes are deferred and replayed: an update whose
\* remote write failed is written to the remote store on a later retry once
\* the network is available, so that with the network available and no
\* remote write left in flight the remote profile matches the local one.
C28_Original ==
  (profile.loaded /\ network = "up" /\ inflight = <<>>) => RemoteMatchesLocal



\* C31: in every reachable state a record's likeTimeSlot is non-empty only
\* if its dailyLikesUsed is greater than 0: the like-window reset clears
\* likeTimeSlot in the step that zeroes dailyLikesUsed, and only an accepted
\* like sets it.
C31_LikeSlotOnlyWithLikes ==
  \A k \in 1..Len(interactions) :
    IsSlot(interactions[k].likeTimeSlot) => interactions[k].dailyLikesUsed > 0

\* a record whose like window was reset: the like stays in likes, the quota
\* and the slot are cleared
C31_Witness ==
  \E k \in 1..Len(interactions) :
    /\ interactions[k].likes = 1
    /\ interactions[k].dailyLikesUsed = 0
    /\ interactions[k].likeTimeSlot = UNDEFINED
    /\ interactions[k].lastLikeReset > likedAt[interactions[k].venueId]



\* the XP of the awards of the types in the list
RECURSIVE XPOf(_)
XPOf(types) == IF types = <<>> THEN 0 ELSE XP_VALUES[Head(types)] + XPOf(Tail(types))

\* C32: awardXP is atomic on the local profile: with a profile present, in
\* every interleaving of awardXP, incrementBarsHit and incrementPhotosTaken
\* at their awaits, the local XP has grown by the XP_VALUES of exactly the
\* awards made and the list of activities by one entry for each, in order.
C32_AwardsNeitherLostNorDoubled ==
  profile.loaded =>
    /\ profile.xp = startProfile.xp + XPOf(awarded)
    /\ profile.xp_activities = startProfile.xp_activities \o awarded

\* two counting handlers overlap: each has made its award while the other
\* waited at an await
C32_Witness ==
  /\ profile.loaded
  /\ Len(awaiting) = 2
  /\ awaiting[1].op = "incrementBarsHit" /\ awaiting[1].at = "award"
  /\ awaiting[2].op = "incrementPhotosTaken" /\ awaiting[2].at = "award"
  /\ awarded = <<"photo_taken", "visit_new_bar">>


\* the profile p holds every value of the updates
Holds(p, updates) ==
  \A i \in 1..Len(updates) : p[updates[i].field] = updates[i].value

\* C38: updateProfile keeps local changes when the remote write fails: a
\* call with a profile present leaves the supplied updates in the local
\* profile, the answer to its request (done, error or exception) leaves the
\* local profile as it is, and the call settles without throwing; a call
\* without a profile changes nothing and issues no request.
C38_KeepsLocalChanges ==
  [][/\ ~profile.loaded => UNCHANGED <<profile, inflight, profiles>>
     /\ Len(inflight') > Len(inflight) =>
          /\ profile.loaded
          /\ Holds(profile', inflight'[Len(inflight')].updates)
     /\ Len(inflight') < Len(inflight) =>
          /\ profile' = profile
          /\ ~reply'.threw]_vars

\* the remote update of {xp: 5} has failed with an exception: the local
\* profile has the xp, the remote row has not
C38_Witness ==
  /\ reply.outcome = "exception"
  /\ inflight = <<>>
  /\ profile.loaded /\ profile.xp = 5
  /\ profiles[profile.id].xp = 0


\* the accumulated progress of a row
Progress(row) ==
  <<row.xp, row.nights_out, row.bars_hit, row.total_shots, row.xp_activities,
    row.visited_bars>>

\* C36 as stated: createProfile for a userId that already has a row
\* preserves the progress of the row: xp, nights_out, bars_hit, the totals,
\* xp_activities and visited_bars are after the upsert what they were before.
C36_Original ==
  [][\A u \in UserIds :
       profiles[u].exists => Progress(profiles'[u]) = Progress(profiles[u])]_vars


\* the loadProfile executions in progress
Loading == {k \in 1..Len(awaiting) : awaiting[k].op = "loadProfile"}

\* C33: at most one loadProfile execution is in progress at any time, and
\* isLoading is set exactly while one is; a call made while isLoading is set
\* returns at once, requests nothing and changes nothing of the store,
\* whatever the interleaving of the calls and the answers.
C33_SingleLoadInProgress ==
  /\ [](Cardinality(Loading) <= 1 /\ (isLoading <=> Loading # {}))
  /\ [][(isLoading /\ last' # last /\ last'.op = "loadProfile") =>
          /\ ~last'.accepted
          /\ last'.effects = <<>>
          /\ UNCHANGED <<consumers, backend, session>>]_vars

\* a call of loadProfile has returned at once, the load in progress still
\* waiting for its friends
C33_Witness ==
  /\ last.op = "loadProfile" /\ ~last.accepted
  /\ isLoading
  /\ \E k \in Loading : awaiting[k].at = "friends"

\* the list s ends with the list t
EndsWith(s, t) ==
  Len(t) <= Len(s) /\ SubSeq(s, Len(s) - Len(t) + 1, Len(s)) = t

\* C34 as stated: a local update made while loadProfile is in flight is not
\* lost: when awardXP has changed the local profile of the user being
\* loaded after loadProfile read the row, the profile that the final write
\* of loadProfile leaves still has the activities of those awards.
C34_Original ==
  [][\A k \in Loading :
       (/\ awaiting[k].at = "syncStats"
        /\ awaiting' = Without(awaiting, k)
        /\ profile.loaded /\ profile.id = awaiting[k].user
        /\ profile'.loaded)
       => EndsWith(profile'.xp_activities,
                   SubSeq(awarded, awaiting[k].seen + 1, Len(awarded)))]_vars


\* C35 as stated: after a successful loadProfile, the friends and the friend
\* requests of the profile are the remote ones of the id of the loaded
\* profile, also when the local profile was null before the call or was the
\* profile of another user.
C35_Original ==
  [][\A k \in Loading :
       (/\ awaiting[k].at = "syncStats"
        /\ awaiting' = Without(awaiting, k)
        /\ profile'.loaded)
       => /\ profile'.friends = RemoteFriends[profile'.id]
          /\ profile'.friend_requests = RemoteRequests[profile'.id]]_vars


\* C37 as stated: incrementNightsOut raises nights_out at most once per
\* local calendar day: no two of its increments fall on the same day, so no
\* second complete_night_out award is made for a day, and from an increment
\* to the end of its day canIncrementNightsOut returns false.
C37_Original ==
  /\ \A i, j \in 1..Len(nightsCounted) :
       i < j => LocalDay(nightsCounted[i]) # LocalDay(nightsCounted[j])
  /\ Times(awarded, "complete_night_out")
       <= Cardinality({LocalDay(nightsCounted[i]) : i \in 1..Len(nightsCounted)})
  /\ (nightsCounted # <<>>
        /\ LocalDay(nightsCounted[Len(nightsCounted)]) = LocalDay(now))
       => ~canIncrementNightsOut(profile)

=============================================================================
